------------------------------- MODULE Settings -------------------------------
(***************************************************************************)
(* The settings of the LLM and of the context manager, and everything that *)
(* is built from them: the store and its file (internal/settings), the     *)
(* callback of cmd/server/main.go that rebuilds the supervisor, replaces   *)
(* the configuration of the context manager and the memory extractor, and  *)
(* UpdateConfig of internal/context/manager.go, which changes the limits   *)
(* in the same configuration.                                              *)
(*                                                                         *)
(* Administrators work in browser tabs, one request at a time in each; the *)
(* handlers refuse everybody else without any effect.  A handler is cut    *)
(* where it takes or gives up a lock, and Save, which holds the lock of    *)
(* the store throughout, where the process may stop with the file in       *)
(* another state.                                                          *)
(*                                                                         *)
(* A model (ChatModel) is represented by the settings it was built from; a *)
(* site stands for BaseURL and Model.                                      *)
(***************************************************************************)
EXTENDS Naturals

CONSTANTS
    Tabs,        \* the browser tabs of administrators
    Keys,        \* API keys as users type them
    Middle,      \* the keys of 9 to 11 characters: their mask has 1 to 3 stars
    Sites,       \* pairs of BaseURL and Model
    Env,         \* the settings in the environment variables
    StartLimits, \* the limits main.go starts with
    LimitsAsked, \* the limits a request may ask for, 0 for "keep"
    MaxUpdates,  \* bound: settings updates in a behaviour
    None         \* the empty string, and no settings

Fields == {"messages", "tokens"}
Limits == [Fields -> Nat]

\* The text of an API key: typed, or the mask of one.
Text == [key : Keys \union {None}, masked : BOOLEAN]
NoKey == [key |-> None, masked |-> FALSE]
Setting == [key : Text, site : Sites \union {None}]
NoSetting == [key |-> NoKey, site |-> None]
Config == [model : Setting, limits : Limits]

ASSUME SettingsAssumption ==
    /\ None \notin Keys \union Sites
    /\ Middle \subseteq Keys
    /\ Env \in Setting
    /\ ~Env.key.masked
    /\ StartLimits \in Limits
    /\ LimitsAsked \subseteq Limits
    /\ MaxUpdates \in Nat
    /\ None \notin Setting

VARIABLES
    pc,          \* pc[t]: the next step of the request of tab t, or "idle"
    shown,       \* shown[t]: the key as the tab shows it
    draft,       \* draft[t]: newSettings of the update under way
    copy,        \* copy[t]: newCfg of UpdateConfig under way
    current,     \* the settings in the store
    file,        \* what can be read from the settings file, None when it is
                 \* missing, empty or cut off
    supervisor,  \* the model of the supervisor
    config,      \* the configuration of the context manager
    extractor,   \* the model of the memory extractor
    updates,     \* how many updates there were
    usable,      \* history: what was in the file, or was started with
    alone,       \* history: no other request overlapped with that of t
    answered     \* history: the settings last answered as saved, until the
                 \* next update saves or when others overlapped with it: None

requests == <<pc, shown, draft, copy>>
store == <<current, file>>
inUse == <<supervisor, config, extractor>>
history == <<usable, alone, answered>>
vars == <<requests, store, inUse, updates, history>>

Saving == {"temp", "rename", "truncate", "fill"}
Steps == {"idle", "save", "rebuild", "configure", "extract", "setConfig"} \union Saving

\* Save holds the lock of the store.
Locked == \E t \in Tabs : pc[t] \in Saving

-----------------------------------------------------------------------------
(* Texts and settings.                                                     *)

\* A mask shows that a key is there; that of a middle key is its own mask.
Mask(text) == IF text = NoKey THEN NoKey ELSE [text EXCEPT !.masked = TRUE]
HasFourStars(text) == text.masked /\ text.key \notin Middle

\* Plausible bug: the mask is taken for a key.
ResolveTyped(text) == text

\* The key of the update: a mask stands for the key in the store.
Resolve(text) == IF HasFourStars(text) THEN current.key ELSE text

FirstNonEmpty(saved, env) ==
    [key |-> IF saved.key # NoKey THEN saved.key ELSE env.key,
     site |-> IF saved.site # None THEN saved.site ELSE env.site]

\* A file that cannot be read leaves the store empty.
Loaded == IF file = None THEN NoSetting ELSE file

-----------------------------------------------------------------------------
Init ==
    /\ pc = [t \in Tabs |-> "idle"]
    /\ shown = [t \in Tabs |-> NoKey]
    /\ draft = [t \in Tabs |-> NoSetting]
    /\ copy = [t \in Tabs |-> [model |-> NoSetting, limits |-> StartLimits]]
    /\ current = NoSetting
    /\ file = None
    /\ supervisor = Env
    /\ config = [model |-> Env, limits |-> StartLimits]
    /\ extractor = Env
    /\ updates = 0
    /\ usable = {Env}
    /\ alone = [t \in Tabs |-> FALSE]
    /\ answered = None

Goto(t, step) == pc' = [pc EXCEPT ![t] = step]

\* A request of t begins: those under way are no longer alone.
Overlap(t) ==
    alone' = [s \in Tabs |-> s = t /\ \A o \in Tabs \ {t} : pc[o] = "idle"]

\* GetSettings shows site and masked key.
View(t) ==
    /\ pc[t] = "idle"
    /\ ~Locked
    /\ shown' = [shown EXCEPT ![t] = Mask(current.key)]
    /\ UNCHANGED <<pc, draft, copy, store, inUse, updates, history>>

\* UpdateSettings reads the store and works out the new settings; the key is
\* typed, cleared or left as it is shown.
Update(t) ==
    /\ pc[t] = "idle"
    /\ updates < MaxUpdates
    /\ ~Locked
    /\ \E text \in [key : Keys, masked : {FALSE}] \union {NoKey, shown[t]},
          site \in Sites \union {None} :
          draft' = [draft EXCEPT ![t] = [key |-> Resolve(text), site |-> site]]
    /\ Goto(t, "save")
    /\ updates' = updates + 1
    /\ Overlap(t)
    /\ UNCHANGED <<shown, copy, store, inUse, usable, answered>>

\* Plausible bug: Save without the lock.
SaveUnlocked(t) ==
    /\ pc[t] = "save"
    /\ current' = draft[t]
    /\ answered' = None
    /\ Goto(t, "temp")
    /\ UNCHANGED <<shown, draft, copy, file, inUse, updates, usable, alone>>

\* Save takes the lock and sets the settings in memory first.
Save(t) ==
    /\ pc[t] = "save"
    /\ ~Locked
    /\ current' = draft[t]
    /\ answered' = None
    /\ Goto(t, "temp")
    /\ UNCHANGED <<shown, draft, copy, file, inUse, updates, usable, alone>>

\* Plausible bug: the error of Save is logged, and the request goes on.
WriteTempLogged(t) ==
    /\ pc[t] = "temp"
    /\ \/ Goto(t, "rename")
       \/ Goto(t, "rebuild")
    /\ UNCHANGED <<shown, draft, copy, store, inUse, updates, history>>

\* The temporary file is written, or cannot be, and the request fails.
WriteTemp(t) ==
    /\ pc[t] = "temp"
    /\ \/ Goto(t, "rename")
       \/ Goto(t, "idle")
    /\ UNCHANGED <<shown, draft, copy, store, inUse, updates, history>>

\* It takes the place of the file.
Rename(t) ==
    /\ pc[t] = "rename"
    /\ file' = draft[t]
    /\ usable' = usable \union {draft[t]}
    /\ Goto(t, "rebuild")
    /\ UNCHANGED <<shown, draft, copy, current, inUse, updates, alone, answered>>

\* It cannot be renamed, and the file is written in place.
RenameFails(t) ==
    /\ pc[t] = "rename"
    /\ Goto(t, "truncate")
    /\ UNCHANGED <<shown, draft, copy, store, inUse, updates, history>>

\* WriteFile truncates the file, if it can be opened, and fills it, if it can.
Truncate(t) ==
    /\ pc[t] = "truncate"
    /\ \/ file' = None /\ Goto(t, "fill")
       \/ file' = file /\ Goto(t, "idle")
    /\ UNCHANGED <<shown, draft, copy, current, inUse, updates, history>>

Fill(t) ==
    /\ pc[t] = "fill"
    /\ \/ file' = draft[t] /\ usable' = usable \union {draft[t]} /\ Goto(t, "rebuild")
       \/ UNCHANGED <<file, usable>> /\ Goto(t, "idle")
    /\ UNCHANGED <<shown, draft, copy, current, inUse, updates, alone, answered>>

\* The callback builds a model, specialists and a supervisor, and puts the
\* supervisor in; or building fails, and the request with it.
Rebuild(t) ==
    /\ pc[t] = "rebuild"
    /\ \/ supervisor' = draft[t] /\ Goto(t, "configure")
       \/ UNCHANGED supervisor /\ Goto(t, "idle")
    /\ UNCHANGED <<shown, draft, copy, store, config, extractor, updates, history>>

\* Plausible bug: the configuration keeps its model.
ConfigureKeepingModel(t) ==
    /\ pc[t] = "configure"
    /\ config' = [config EXCEPT !.limits = StartLimits]
    /\ Goto(t, "extract")
    /\ UNCHANGED <<shown, draft, copy, store, supervisor, extractor, updates, history>>

\* SetConfig with the limits of the start and the new model.
Configure(t) ==
    /\ pc[t] = "configure"
    /\ config' = [model |-> draft[t], limits |-> StartLimits]
    /\ Goto(t, "extract")
    /\ UNCHANGED <<shown, draft, copy, store, supervisor, extractor, updates, history>>

\* SetMemoryExtractor, and the answer "saved".
Extract(t) ==
    /\ pc[t] = "extract"
    /\ extractor' = draft[t]
    /\ answered' = IF alone[t] THEN draft[t] ELSE None
    /\ Goto(t, "idle")
    /\ UNCHANGED <<shown, draft, copy, store, supervisor, config, updates, usable, alone>>

\* UpdateConfig reads the configuration and merges the limits asked for.
ReadConfig(t) ==
    /\ pc[t] = "idle"
    /\ \E asked \in LimitsAsked :
          copy' = [copy EXCEPT ![t] =
                       [config EXCEPT !.limits =
                            [f \in Fields |-> IF asked[f] > 0 THEN asked[f] ELSE @[f]]]]
    /\ Goto(t, "setConfig")
    /\ Overlap(t)
    /\ UNCHANGED <<shown, draft, store, inUse, updates, usable, answered>>

\* It stores what it has merged.
SetConfig(t) ==
    /\ pc[t] = "setConfig"
    /\ config' = copy[t]
    /\ Goto(t, "idle")
    /\ UNCHANGED <<shown, draft, copy, store, supervisor, extractor, updates, history>>

\* The server stops, at any point, and starts from the file; the tabs stay.
Restart ==
    LET start == FirstNonEmpty(Loaded, Env)
    IN  /\ pc' = [t \in Tabs |-> "idle"]
        /\ current' = Loaded
        /\ supervisor' = start
        /\ config' = [model |-> start, limits |-> StartLimits]
        /\ extractor' = start
        /\ usable' = usable \union {start}
        /\ UNCHANGED <<shown, draft, copy, file, updates, alone, answered>>

Handle(t) ==
    \/ View(t) \/ Update(t) \/ Save(t) \/ WriteTemp(t) \/ Rename(t) \/ RenameFails(t)
    \/ Truncate(t) \/ Fill(t) \/ Rebuild(t) \/ Configure(t) \/ Extract(t)
    \/ ReadConfig(t) \/ SetConfig(t)

Next == (\E t \in Tabs : Handle(t)) \/ Restart

Spec == Init /\ [][Next]_vars

-----------------------------------------------------------------------------
(* Properties.                                                             *)

\* Shapes; at most one Save is under way, and what it writes is what the
\* store holds.  (SettingsStore.Save under its lock.)
TypeOK ==
    /\ pc \in [Tabs -> Steps]
    /\ shown \in [Tabs -> Text]
    /\ draft \in [Tabs -> Setting]
    /\ copy \in [Tabs -> Config]
    /\ current \in Setting
    /\ file \in Setting \union {None}
    /\ supervisor \in Setting /\ config \in Config /\ extractor \in Setting
    /\ updates \in 0..MaxUpdates
    /\ usable \subseteq Setting
    /\ alone \in [Tabs -> BOOLEAN]
    /\ answered \in Setting \union {None}
    /\ \A s, t \in Tabs : pc[s] \in Saving /\ pc[t] \in Saving => s = t
    /\ \A t \in Tabs : pc[t] \in Saving => current = draft[t]

\* Nothing is used that could not be saved: what the supervisor, the context
\* manager and the extractor work with was once in the file, or the server
\* was started with it.  A failure to save leaves the running agent alone.
OnlySavedUsed == {supervisor, config.model, extractor} \subseteq usable

\* What an update that no other one overlapped has answered as saved stays in
\* the store and in the file until the next update saves, however often the
\* server stops in between.
AnsweredIsSaved == answered # None => current = answered /\ file = answered

\* And it is in use everywhere: supervisor, context manager and extractor
\* agree, and have what was saved wherever that is not empty (what is empty
\* comes from the environment after a restart).  Changes of the limits, and
\* updates that have not saved yet, do not disturb it.
AnsweredIsUsed ==
    answered # None =>
        /\ supervisor = config.model /\ supervisor = extractor
        /\ answered.key # NoKey => supervisor.key = answered.key
        /\ answered.site # None => supervisor.site = answered.site

\* An update that was answered as saved has happened, everywhere.
AnswerHolds == AnsweredIsSaved /\ AnsweredIsUsed

\* A mask that is recognised as one is never stored or used as a key, however
\* old the form is that it comes from.  (UpdateSettings, strings.Contains.)
MaskNeverStored ==
    \A s \in {current, supervisor, config.model, extractor} \union ({file} \ {None}) :
        ~HasFourStars(s.key)
=============================================================================

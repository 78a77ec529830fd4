---------------------------- MODULE SettingsProofs ----------------------------
(***************************************************************************)
(* Theorems about Settings, for any number of tabs, keys, sites, limits    *)
(* and updates: type correctness, what may be used, the masks, and what is *)
(* promised by the answer "saved".                                         *)
(***************************************************************************)
EXTENDS Settings, TLAPS

-----------------------------------------------------------------------------
(* What the operators on texts and settings return.                        *)

LEMMA TextType ==
    /\ NoKey \in Text
    /\ NoSetting \in Setting
    /\ \A text \in Text : Mask(text) \in Text
    /\ \A k \in Keys : [key |-> k, masked |-> FALSE] \in Text
    /\ \A text \in Text, s \in Sites \union {None} : [key |-> text, site |-> s] \in Setting
BY DEF Text, NoKey, NoSetting, Setting, Mask

LEMMA FirstNonEmptyType ==
    ASSUME NEW s \in Setting, NEW e \in Setting
    PROVE  FirstNonEmpty(s, e) \in Setting
BY DEF FirstNonEmpty, Setting

LEMMA ResolveType ==
    ASSUME NEW text \in Text, current \in Setting
    PROVE  Resolve(text) \in Text
BY DEF Resolve, Setting

-----------------------------------------------------------------------------
(* Type correctness.                                                       *)

Shapes ==
    /\ pc \in [Tabs -> Steps]
    /\ shown \in [Tabs -> Text]
    /\ draft \in [Tabs -> Setting]
    /\ copy \in [Tabs -> Config]
    /\ current \in Setting
    /\ file \in Setting \union {None}
    /\ supervisor \in Setting /\ config \in Config /\ extractor \in Setting
    /\ updates \in 0..MaxUpdates
    /\ usable \subseteq Setting
    /\ alone \in [Tabs -> BOOLEAN]
    /\ answered \in Setting \union {None}

\* One Save at a time, which writes what the store holds.
OneSaver ==
    /\ \A s, t \in Tabs : pc[s] \in Saving /\ pc[t] \in Saving => s = t
    /\ \A t \in Tabs : pc[t] \in Saving => current = draft[t]

LEMMA InitType == Init => Shapes /\ OneSaver
<1> SUFFICES ASSUME Init PROVE Shapes /\ OneSaver
  OBVIOUS
<1>1. [model |-> NoSetting, limits |-> StartLimits] \in Config
      /\ [model |-> Env, limits |-> StartLimits] \in Config
  BY TextType, SettingsAssumption DEF Config
<1>2. Shapes
  BY <1>1, TextType, SettingsAssumption DEF Init, Shapes, Steps
<1>3. OneSaver
  BY DEF Init, OneSaver, Saving
<1> QED BY <1>2, <1>3

LEMMA StepShapes == Shapes /\ [Next]_vars => Shapes'
<1> SUFFICES ASSUME Shapes, [Next]_vars PROVE Shapes'
  OBVIOUS
<1> USE DEF Shapes, Goto, requests, store, inUse, history
<1>1. ASSUME NEW t \in Tabs, View(t) PROVE Shapes'
  <2>1. Mask(current.key) \in Text
    BY TextType DEF Setting
  <2> QED BY <1>1, <2>1 DEF View
<1>2. ASSUME NEW t \in Tabs, Update(t) PROVE Shapes'
  <2>1. draft' \in [Tabs -> Setting]
    <3>1. PICK text \in [key : Keys, masked : {FALSE}] \union {NoKey, shown[t]},
               site \in Sites \union {None} :
               draft' = [draft EXCEPT ![t] = [key |-> Resolve(text), site |-> site]]
      BY <1>2 DEF Update
    <3>2. text \in Text
      <4>1. \A k \in [key : Keys, masked : {FALSE}] : k \in Text
        BY DEF Text
      <4>2. NoKey \in Text /\ shown[t] \in Text
        BY TextType
      <4> QED BY <3>1, <4>1, <4>2
    <3>3. [key |-> Resolve(text), site |-> site] \in Setting
      BY <3>1, <3>2, ResolveType, TextType
    <3> QED BY <3>1, <3>3
  <2>2. updates' \in 0..MaxUpdates
    BY <1>2, SettingsAssumption DEF Update
  <2>3. pc' \in [Tabs -> Steps] /\ alone' \in [Tabs -> BOOLEAN]
    BY <1>2 DEF Update, Steps, Overlap
  <2> QED BY <1>2, <2>1, <2>2, <2>3 DEF Update
<1>3. ASSUME NEW t \in Tabs, Save(t) PROVE Shapes'
  BY <1>3 DEF Save, Steps, Saving
<1>4. ASSUME NEW t \in Tabs, WriteTemp(t) \/ RenameFails(t) PROVE Shapes'
  BY <1>4 DEF WriteTemp, RenameFails, Steps, Saving
<1>5. ASSUME NEW t \in Tabs, Rename(t) PROVE Shapes'
  BY <1>5 DEF Rename, Steps
<1>6. ASSUME NEW t \in Tabs, Truncate(t) PROVE Shapes'
  BY <1>6 DEF Truncate, Steps, Saving
<1>7. ASSUME NEW t \in Tabs, Fill(t) PROVE Shapes'
  BY <1>7 DEF Fill, Steps
<1>8. ASSUME NEW t \in Tabs, Rebuild(t) PROVE Shapes'
  BY <1>8 DEF Rebuild, Steps
<1>9. ASSUME NEW t \in Tabs, Configure(t) PROVE Shapes'
  BY <1>9, SettingsAssumption DEF Configure, Steps, Config
<1>10. ASSUME NEW t \in Tabs, Extract(t) PROVE Shapes'
  BY <1>10 DEF Extract, Steps
<1>11. ASSUME NEW t \in Tabs, ReadConfig(t) PROVE Shapes'
  <2>1. copy' \in [Tabs -> Config]
    <3>1. PICK asked \in LimitsAsked :
               copy' = [copy EXCEPT ![t] =
                            [config EXCEPT !.limits =
                                 [f \in Fields |-> IF asked[f] > 0 THEN asked[f]
                                                   ELSE config.limits[f]]]]
      BY <1>11 DEF ReadConfig
    <3>2. [f \in Fields |-> IF asked[f] > 0 THEN asked[f] ELSE config.limits[f]] \in Limits
      BY SettingsAssumption DEF Limits, Config
    <3> QED BY <3>1, <3>2 DEF Config
  <2>2. pc' \in [Tabs -> Steps] /\ alone' \in [Tabs -> BOOLEAN]
    BY <1>11 DEF ReadConfig, Steps, Overlap
  <2> QED BY <1>11, <2>1, <2>2 DEF ReadConfig
<1>12. ASSUME NEW t \in Tabs, SetConfig(t) PROVE Shapes'
  BY <1>12 DEF SetConfig, Steps
<1>13. ASSUME Restart PROVE Shapes'
  <2>1. Loaded \in Setting
    BY TextType DEF Loaded
  <2>2. FirstNonEmpty(Loaded, Env) \in Setting
    BY <2>1, FirstNonEmptyType, SettingsAssumption
  <2>3. [model |-> FirstNonEmpty(Loaded, Env), limits |-> StartLimits] \in Config
    BY <2>2, SettingsAssumption DEF Config
  <2> QED BY <1>13, <2>1, <2>2, <2>3 DEF Restart, Steps
<1>14. CASE UNCHANGED vars
  BY <1>14 DEF vars
<1> QED BY <1>1, <1>2, <1>3, <1>4, <1>5, <1>6, <1>7, <1>8, <1>9, <1>10, <1>11, <1>12,
           <1>13, <1>14 DEF Next, Handle

\* How a step moves the request of a tab, and that the others stay.
LEMMA StepSaver == Shapes /\ OneSaver /\ [Next]_vars => OneSaver'
<1> SUFFICES ASSUME Shapes, OneSaver, [Next]_vars PROVE OneSaver'
  OBVIOUS
<1> USE DEF OneSaver, Goto, requests, store, Saving
<1>p. pc \in [Tabs -> Steps] /\ draft \in [Tabs -> Setting]
  BY DEF Shapes
<1>1. ASSUME NEW t \in Tabs, View(t) PROVE OneSaver'
  BY <1>1, <1>p DEF View
<1>2. ASSUME NEW t \in Tabs, Update(t) PROVE OneSaver'
  BY <1>2, <1>p DEF Update
<1>3. ASSUME NEW t \in Tabs, Save(t) PROVE OneSaver'
  BY <1>3, <1>p DEF Save, Locked
<1>4. ASSUME NEW t \in Tabs, WriteTemp(t) \/ RenameFails(t) PROVE OneSaver'
  BY <1>4, <1>p DEF WriteTemp, RenameFails
<1>5. ASSUME NEW t \in Tabs, Rename(t) \/ Truncate(t) \/ Fill(t) PROVE OneSaver'
  BY <1>5, <1>p DEF Rename, Truncate, Fill
<1>6. ASSUME NEW t \in Tabs, Rebuild(t) \/ Configure(t) \/ Extract(t) PROVE OneSaver'
  BY <1>6, <1>p DEF Rebuild, Configure, Extract
<1>7. ASSUME NEW t \in Tabs, ReadConfig(t) \/ SetConfig(t) PROVE OneSaver'
  BY <1>7, <1>p DEF ReadConfig, SetConfig
<1>8. ASSUME Restart PROVE OneSaver'
  BY <1>8 DEF Restart
<1>9. CASE UNCHANGED vars
  BY <1>9 DEF vars
<1> QED BY <1>1, <1>2, <1>3, <1>4, <1>5, <1>6, <1>7, <1>8, <1>9 DEF Next, Handle

LEMMA TypeParts == TypeOK <=> Shapes /\ OneSaver
BY DEF TypeOK, Shapes, OneSaver

\* Everything keeps its shape, and Save is never under way twice.
THEOREM TypeCorrect == Spec => []TypeOK
<1>1. Init => Shapes /\ OneSaver
  BY InitType
<1>2. Shapes /\ OneSaver /\ [Next]_vars => (Shapes /\ OneSaver)'
  BY StepShapes, StepSaver
<1>3. Shapes /\ OneSaver => TypeOK
  BY TypeParts
<1> QED BY <1>1, <1>2, <1>3, PTL DEF Spec

-----------------------------------------------------------------------------
(* What is used was saved.  A request carries settings that were saved     *)
(* from the moment Save has succeeded, UpdateConfig a model it found.      *)

SavedInv ==
    /\ Shapes
    /\ OnlySavedUsed
    /\ \A t \in Tabs : /\ pc[t] \in {"rebuild", "configure", "extract"} => draft[t] \in usable
                       /\ pc[t] = "setConfig" => copy[t].model \in usable

LEMMA InitSaved == Init => SavedInv
<1> SUFFICES ASSUME Init PROVE SavedInv
  OBVIOUS
<1>1. Shapes
  BY InitType
<1> QED BY <1>1 DEF Init, SavedInv, OnlySavedUsed

LEMMA StepSaved == SavedInv /\ [Next]_vars => SavedInv'
<1> SUFFICES ASSUME SavedInv, [Next]_vars PROVE SavedInv'
  OBVIOUS
<1>s. Shapes'
  BY StepShapes DEF SavedInv
<1>p. /\ pc \in [Tabs -> Steps] /\ draft \in [Tabs -> Setting]
      /\ copy \in [Tabs -> Config] /\ config \in Config
  BY DEF SavedInv, Shapes
<1> DEFINE Used == /\ supervisor \in usable /\ config.model \in usable
                   /\ extractor \in usable
           Carried == \A t \in Tabs :
              /\ pc[t] \in {"rebuild", "configure", "extract"} => draft[t] \in usable
              /\ pc[t] = "setConfig" => copy[t].model \in usable
<1>i. Used /\ Carried
  BY DEF SavedInv, OnlySavedUsed
<1> USE DEF Goto, requests, store, inUse, history
<1>1. ASSUME NEW t \in Tabs, View(t) PROVE Used' /\ Carried'
  BY <1>1, <1>i DEF View
<1>2. ASSUME NEW t \in Tabs, Update(t) PROVE Used' /\ Carried'
  BY <1>2, <1>i, <1>p DEF Update
<1>3. ASSUME NEW t \in Tabs, Save(t) PROVE Used' /\ Carried'
  BY <1>3, <1>i, <1>p DEF Save
<1>4. ASSUME NEW t \in Tabs, WriteTemp(t) \/ RenameFails(t) \/ Truncate(t)
      PROVE  Used' /\ Carried'
  BY <1>4, <1>i, <1>p DEF WriteTemp, RenameFails, Truncate
<1>5. ASSUME NEW t \in Tabs, Rename(t) \/ Fill(t) PROVE Used' /\ Carried'
  BY <1>5, <1>i, <1>p DEF Rename, Fill
<1>6. ASSUME NEW t \in Tabs, Rebuild(t) \/ Configure(t) \/ Extract(t)
      PROVE  Used' /\ Carried'
  BY <1>6, <1>i, <1>p DEF Rebuild, Configure, Extract
<1>7. ASSUME NEW t \in Tabs, ReadConfig(t) PROVE Used' /\ Carried'
  <2>1. copy'[t].model = config.model /\ \A s \in Tabs \ {t} : copy'[s] = copy[s]
    BY <1>7, <1>p DEF ReadConfig, Config
  <2> QED BY <1>7, <1>i, <1>p, <2>1 DEF ReadConfig
<1>8. ASSUME NEW t \in Tabs, SetConfig(t) PROVE Used' /\ Carried'
  BY <1>8, <1>i, <1>p DEF SetConfig
<1>9. ASSUME Restart PROVE Used' /\ Carried'
  BY <1>9, <1>i DEF Restart
<1>10. ASSUME UNCHANGED vars PROVE Used' /\ Carried'
  <2>1. UNCHANGED <<pc, draft, copy, supervisor, config, extractor, usable>>
    BY <1>10 DEF vars
  <2> QED BY <1>i, <2>1
<1> QED BY <1>s, <1>1, <1>2, <1>3, <1>4, <1>5, <1>6, <1>7, <1>8, <1>9, <1>10
        DEF Next, Handle, SavedInv, OnlySavedUsed

\* No component ever works with settings that could not be saved.
THEOREM OnlySavedUsedAlways == Spec => []OnlySavedUsed
<1>1. SavedInv => OnlySavedUsed
  BY DEF SavedInv
<1> QED BY <1>1, InitSaved, StepSaved, PTL DEF Spec

-----------------------------------------------------------------------------
(* Masks.  What is stored, used or carried by a request never has a key    *)
(* that a form could take for a mask.                                      *)

Clear(s) == ~HasFourStars(s.key)

MaskInv ==
    /\ Shapes
    /\ Clear(current) /\ Clear(supervisor) /\ Clear(config.model) /\ Clear(extractor)
    /\ file # None => Clear(file)
    /\ \A t \in Tabs : Clear(draft[t]) /\ Clear(copy[t].model)

LEMMA InitMask == Init => MaskInv
<1> SUFFICES ASSUME Init PROVE MaskInv
  OBVIOUS
<1>1. Shapes
  BY InitType
<1>2. Clear(NoSetting) /\ Clear(Env)
  BY SettingsAssumption DEF Clear, HasFourStars, NoSetting, NoKey
<1> QED BY <1>1, <1>2 DEF Init, MaskInv

LEMMA StepMask == MaskInv /\ [Next]_vars => MaskInv'
<1> SUFFICES ASSUME MaskInv, [Next]_vars PROVE MaskInv'
  OBVIOUS
<1>s. Shapes'
  BY StepShapes DEF MaskInv
<1>p. /\ pc \in [Tabs -> Steps] /\ draft \in [Tabs -> Setting]
      /\ copy \in [Tabs -> Config] /\ config \in Config /\ shown \in [Tabs -> Text]
  BY DEF MaskInv, Shapes
<1> USE DEF Goto, requests, store, inUse, history
<1> DEFINE Kept == /\ Clear(current) /\ Clear(supervisor) /\ Clear(config.model)
                   /\ Clear(extractor)
                   /\ file # None => Clear(file)
                   /\ \A t \in Tabs : Clear(draft[t]) /\ Clear(copy[t].model)
<1>i. Kept
  BY DEF MaskInv
<1>1. ASSUME NEW t \in Tabs, View(t) PROVE Kept'
  BY <1>1, <1>i DEF View, Clear, HasFourStars
<1>2. ASSUME NEW t \in Tabs, Update(t) PROVE Kept'
  <2>1. PICK text \in [key : Keys, masked : {FALSE}] \union {NoKey, shown[t]},
             site \in Sites \union {None} :
             draft' = [draft EXCEPT ![t] = [key |-> Resolve(text), site |-> site]]
    BY <1>2 DEF Update
  <2>2. Clear([key |-> Resolve(text), site |-> site])
    BY <1>i DEF Clear, Resolve, HasFourStars
  <2>3. \A s \in Tabs : Clear(draft'[s])
    BY <1>i, <1>p, <2>1, <2>2 DEF Clear, HasFourStars
  <2>4. UNCHANGED <<copy, store, inUse>>
    BY <1>2 DEF Update
  <2> QED BY <1>i, <2>3, <2>4 DEF Clear, HasFourStars
<1>3. ASSUME NEW t \in Tabs, Save(t) PROVE Kept'
  BY <1>3, <1>i DEF Save, Clear, HasFourStars
<1>4. ASSUME NEW t \in Tabs, WriteTemp(t) \/ RenameFails(t) \/ Truncate(t) PROVE Kept'
  BY <1>4, <1>i DEF WriteTemp, RenameFails, Truncate, Clear, HasFourStars
<1>5. ASSUME NEW t \in Tabs, Rename(t) \/ Fill(t) PROVE Kept'
  BY <1>5, <1>i DEF Rename, Fill, Clear, HasFourStars
<1>6. ASSUME NEW t \in Tabs, Rebuild(t) \/ Configure(t) \/ Extract(t) PROVE Kept'
  BY <1>6, <1>i DEF Rebuild, Configure, Extract, Clear, HasFourStars
<1>7. ASSUME NEW t \in Tabs, ReadConfig(t) PROVE Kept'
  <2>1. copy'[t].model = config.model /\ \A s \in Tabs \ {t} : copy'[s] = copy[s]
    BY <1>7, <1>p DEF ReadConfig, Config
  <2>2. UNCHANGED <<draft, store, inUse>>
    BY <1>7 DEF ReadConfig
  <2> QED BY <1>i, <2>1, <2>2 DEF Clear, HasFourStars
<1>8. ASSUME NEW t \in Tabs, SetConfig(t) PROVE Kept'
  BY <1>8, <1>i DEF SetConfig, Clear, HasFourStars
<1>9. ASSUME Restart PROVE Kept'
  <2>1. Clear(Loaded)
    BY <1>i DEF Loaded, Clear, HasFourStars, NoSetting, NoKey
  <2>2. Clear(FirstNonEmpty(Loaded, Env))
    BY <2>1, SettingsAssumption DEF FirstNonEmpty, Clear, HasFourStars
  <2> QED BY <1>9, <1>i, <2>1, <2>2 DEF Restart, Clear, HasFourStars
<1>10. ASSUME UNCHANGED vars PROVE Kept'
  BY <1>10, <1>i DEF vars, Clear, HasFourStars
<1> QED BY <1>s, <1>1, <1>2, <1>3, <1>4, <1>5, <1>6, <1>7, <1>8, <1>9, <1>10
        DEF Next, Handle, MaskInv

\* A mask with four stars is never stored or used as a key.
THEOREM MaskNeverStoredAlways == Spec => []MaskNeverStored
<1>1. MaskInv => MaskNeverStored
  BY DEF MaskInv, MaskNeverStored, Clear
<1> QED BY <1>1, InitMask, StepMask, PTL DEF Spec

-----------------------------------------------------------------------------
(* The answer "saved".  While the request that will give it has not been   *)
(* overlapped all others are idle, so what it has put into one place is    *)
(* still there when it has filled the last one.  From Save on there is no  *)
(* answer to be true to until the request ends.                            *)

AnswerInv ==
    /\ Shapes
    /\ OneSaver
    /\ \A s, t \in Tabs : alone[t] /\ pc[t] # "idle" /\ s # t => pc[s] = "idle"
    /\ \A t \in Tabs :
          /\ pc[t] \in Saving \union {"rebuild", "configure", "extract"} => answered = None
          /\ alone[t] /\ pc[t] \in {"rebuild", "configure", "extract"} =>
                current = draft[t] /\ file = draft[t]
          /\ alone[t] /\ pc[t] \in {"configure", "extract"} => supervisor = draft[t]
          /\ alone[t] /\ pc[t] = "extract" => config.model = draft[t]
          /\ answered # None /\ pc[t] = "setConfig" => copy[t].model = config.model
    /\ AnsweredIsSaved
    /\ AnsweredIsUsed

LEMMA InitAnswer == Init => AnswerInv
<1> SUFFICES ASSUME Init PROVE AnswerInv
  OBVIOUS
<1>1. Shapes /\ OneSaver
  BY InitType
<1> QED BY <1>1 DEF Init, AnswerInv, AnsweredIsSaved, AnsweredIsUsed, Saving

LEMMA StepAnswer == AnswerInv /\ [Next]_vars => AnswerInv'
<1> SUFFICES ASSUME AnswerInv, [Next]_vars PROVE AnswerInv'
  OBVIOUS
<1>s. (Shapes /\ OneSaver)'
  BY StepShapes, StepSaver DEF AnswerInv
<1>p. /\ pc \in [Tabs -> Steps] /\ draft \in [Tabs -> Setting]
      /\ copy \in [Tabs -> Config] /\ config \in Config
      /\ alone \in [Tabs -> BOOLEAN] /\ None \notin Setting
  BY SettingsAssumption DEF AnswerInv, Shapes
<1> DEFINE
      Apart == \A s, t \in Tabs : alone[t] /\ pc[t] # "idle" /\ s # t => pc[s] = "idle"
      Silent == \A t \in Tabs :
         pc[t] \in Saving \union {"rebuild", "configure", "extract"} => answered = None
      Stored == \A t \in Tabs :
         alone[t] /\ pc[t] \in {"rebuild", "configure", "extract"} =>
            current = draft[t] /\ file = draft[t]
      Put == \A t \in Tabs :
         /\ alone[t] /\ pc[t] \in {"configure", "extract"} => supervisor = draft[t]
         /\ alone[t] /\ pc[t] = "extract" => config.model = draft[t]
      Copied == \A t \in Tabs :
         answered # None /\ pc[t] = "setConfig" => copy[t].model = config.model
      Good == Apart /\ Silent /\ Stored /\ Put /\ Copied
      Promise == AnsweredIsSaved /\ AnsweredIsUsed
<1>i. Good /\ Promise
  BY DEF AnswerInv
<1>w. \A t \in Tabs : pc[t] \in Saving => current = draft[t]
  BY DEF AnswerInv, OneSaver
<1> USE DEF Goto, requests, store, inUse, history, Saving
<1>1. ASSUME NEW t \in Tabs, View(t) PROVE Good' /\ Promise'
  BY <1>1, <1>i DEF View, AnsweredIsSaved, AnsweredIsUsed
<1>2. ASSUME NEW t \in Tabs, Update(t) PROVE Good' /\ Promise'
  <2>1. /\ \A s \in Tabs \ {t} : ~alone'[s]
        /\ alone'[t] => \A s \in Tabs \ {t} : pc[s] = "idle"
        /\ pc' = [pc EXCEPT ![t] = "save"]
        /\ UNCHANGED <<copy, current, file, supervisor, config, extractor, answered>>
    BY <1>2 DEF Update, Overlap
  <2>2. Promise'
    BY <2>1, <1>i DEF AnsweredIsSaved, AnsweredIsUsed
  <2> QED BY <2>1, <2>2, <1>i, <1>p
<1>3. ASSUME NEW t \in Tabs, Save(t) PROVE Good' /\ Promise'
  BY <1>3, <1>i, <1>p DEF Save, AnsweredIsSaved, AnsweredIsUsed
<1>4. ASSUME NEW t \in Tabs, WriteTemp(t) \/ RenameFails(t) PROVE Good' /\ Promise'
  <2>1. Good'
    BY <1>4, <1>i, <1>p DEF WriteTemp, RenameFails
  <2>2. Promise'
    BY <1>4, <1>i DEF WriteTemp, RenameFails, AnsweredIsSaved, AnsweredIsUsed
  <2> QED BY <2>1, <2>2
<1>5. ASSUME NEW t \in Tabs, Rename(t) \/ Truncate(t) \/ Fill(t) PROVE Good' /\ Promise'
  <2>1. answered = None /\ answered' = None /\ current = draft[t]
    BY <1>5, <1>i, <1>w DEF Rename, Truncate, Fill
  <2>2. Good'
    BY <1>5, <2>1, <1>i, <1>p DEF Rename, Truncate, Fill
  <2> QED BY <2>1, <2>2 DEF AnsweredIsSaved, AnsweredIsUsed
<1>6. ASSUME NEW t \in Tabs, Rebuild(t) \/ Configure(t) PROVE Good' /\ Promise'
  <2>1. answered = None /\ answered' = None
    BY <1>6, <1>i DEF Rebuild, Configure
  <2>2. Good'
    BY <1>6, <2>1, <1>i, <1>p DEF Rebuild, Configure
  <2> QED BY <2>1, <2>2 DEF AnsweredIsSaved, AnsweredIsUsed
<1>7. ASSUME NEW t \in Tabs, Extract(t) PROVE Good' /\ Promise'
  <2>1. Good'
    BY <1>7, <1>i, <1>p DEF Extract
  <2>2. Promise'
    BY <1>7, <1>i, <1>p DEF Extract, AnsweredIsSaved, AnsweredIsUsed
  <2> QED BY <2>1, <2>2
<1>8. ASSUME NEW t \in Tabs, ReadConfig(t) PROVE Good' /\ Promise'
  <2>1. /\ \A s \in Tabs \ {t} : ~alone'[s]
        /\ alone'[t] => \A s \in Tabs \ {t} : pc[s] = "idle"
        /\ pc' = [pc EXCEPT ![t] = "setConfig"]
        /\ copy'[t].model = config.model /\ \A s \in Tabs \ {t} : copy'[s] = copy[s]
        /\ UNCHANGED <<draft, current, file, supervisor, config, extractor, answered>>
    BY <1>8, <1>p DEF ReadConfig, Overlap, Config
  <2>2. Promise'
    BY <2>1, <1>i DEF AnsweredIsSaved, AnsweredIsUsed
  <2> QED BY <2>1, <2>2, <1>i, <1>p
<1>9. ASSUME NEW t \in Tabs, SetConfig(t) PROVE Good' /\ Promise'
  <2>1. /\ config' = copy[t] /\ pc' = [pc EXCEPT ![t] = "idle"] /\ pc[t] = "setConfig"
        /\ UNCHANGED <<draft, copy, current, file, supervisor, extractor, alone, answered>>
    BY <1>9 DEF SetConfig
  <2>2. answered # None => config'.model = config.model
    BY <2>1, <1>i
  <2>3. Good'
    BY <2>1, <2>2, <1>i, <1>p
  <2>4. Promise'
    BY <2>1, <2>2, <1>i DEF AnsweredIsSaved, AnsweredIsUsed
  <2> QED BY <2>3, <2>4
<1>10. ASSUME Restart PROVE Good' /\ Promise'
  <2>1. Good'
    BY <1>10, <1>i DEF Restart
  <2>2. answered # None => Loaded = answered
    BY <1>i DEF Loaded, AnsweredIsSaved
  <2>3. AnsweredIsSaved'
    BY <1>10, <1>i, <2>2 DEF Restart, AnsweredIsSaved
  <2>4. AnsweredIsUsed'
    BY <1>10, <1>i, <2>2 DEF Restart, AnsweredIsUsed, FirstNonEmpty
  <2> QED BY <2>1, <2>3, <2>4
<1>11. ASSUME UNCHANGED vars PROVE Good' /\ Promise'
  <2>1. UNCHANGED <<pc, draft, copy, current, file, supervisor, config, extractor, alone,
                    answered>>
    BY <1>11 DEF vars
  <2> QED BY <1>i, <2>1 DEF AnsweredIsSaved, AnsweredIsUsed
<1>12. Good' /\ Promise'
  <2> HIDE DEF Good, Promise
  <2> QED BY <1>1, <1>2, <1>3, <1>4, <1>5, <1>6, <1>7, <1>8, <1>9, <1>10, <1>11
          DEF Next, Handle
<1> QED BY <1>s, <1>12 DEF AnswerInv

\* What was answered as saved is in the store and in the file until the next
\* update saves, for any number of administrators and restarts.
THEOREM AnsweredIsSavedAlways == Spec => []AnsweredIsSaved
<1>1. AnswerInv => AnsweredIsSaved
  BY DEF AnswerInv
<1> QED BY <1>1, InitAnswer, StepAnswer, PTL DEF Spec

\* And supervisor, context manager and memory extractor all work with it.
THEOREM AnsweredIsUsedAlways == Spec => []AnsweredIsUsed
<1>1. AnswerInv => AnsweredIsUsed
  BY DEF AnswerInv
<1> QED BY <1>1, InitAnswer, StepAnswer, PTL DEF Spec

\* What an undisturbed update answered as saved is saved and in use.
THEOREM AnswerHoldsAlways == Spec => []AnswerHolds
<1>1. AnsweredIsSaved /\ AnsweredIsUsed => AnswerHolds
  BY DEF AnswerHolds
<1> QED BY <1>1, AnsweredIsSavedAlways, AnsweredIsUsedAlways, PTL
=============================================================================

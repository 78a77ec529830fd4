--------------------------- MODULE MCContextProcess ---------------------------
(***************************************************************************)
(* Instances of ContextProcess for TLC: every list of up to MaxLength      *)
(* messages that ends with the message the user has just sent.  A message  *)
(* may count no token at all (an assistant message without text).          *)
(***************************************************************************)
EXTENDS ContextProcess

CONSTANT MaxLength

Msg(k, sizes) == {[kind |-> k, tokens |-> n] : n \in sizes}

Alphabet == Msg("system", {1}) \union Msg("plain", {0, 1, 2})
            \union Msg("call", {2}) \union Msg("tool", {1})

MCHistories ==
    {Append(h, m) : h \in UNION {[1..n -> Alphabet] : n \in 0..(MaxLength - 1)},
                    m \in Msg("plain", {1, 2})}

\* Every limit on and off; without a summarizer the ratio does not matter.
MCConfigs ==
    {[maxMessages |-> n, maxTokens |-> t, ratio |-> r, summarizer |-> TRUE] :
        n \in {0, 2}, t \in {2, 4}, r \in {3, 8}}
    \union {[maxMessages |-> 2, maxTokens |-> t, ratio |-> 8, summarizer |-> FALSE] :
        t \in {0, 2, 4}}
=============================================================================

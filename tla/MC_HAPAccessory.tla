--------------------------- MODULE MC_HAPAccessory ---------------------------
(* Two addresses, the paired controller c1 and a stranger c2 whose pair- *)
(* verify fails, one                                                       *)
(* characteristic ch1 that is observable and writable (an "On") and one   *)
(* ch2 that is neither (a read-only "Name"), boolean values.              *)
EXTENDS HAPAccessory, TLC

CONSTANTS a1, a2, c1, c2, k1, k2, ch1, ch2

MCAddr == {a1, a2}
MCCtrl == {c1, c2}
MCKeys == {k1, k2}
MCControllerKey == [c \in MCCtrl |-> IF c = c1 THEN k1 ELSE k2]
MCPinHolders == {c1}
MCPairedCtrl == {c1}
MCChars == {ch1, ch2}
MCObservable == {ch1}
MCWritable == {ch1}
MCValues == {0, 1}
MCInitValue == [c \in MCChars |-> 0]

\* A write with r, a write back, subscribe and unsubscribe on ch1; a write
\* and a subscribe on ch2; a write to an id findC does not resolve.
MCPutElements ==
  { [id |-> ch1, v |-> 1, ev |-> "absent", r |-> TRUE],
    [id |-> ch1, v |-> 0, ev |-> "absent", r |-> FALSE],
    [id |-> ch1, v |-> NoValue, ev |-> "true", r |-> FALSE],
    [id |-> ch1, v |-> NoValue, ev |-> "false", r |-> FALSE],
    [id |-> ch2, v |-> 1, ev |-> "absent", r |-> FALSE],
    [id |-> ch2, v |-> NoValue, ev |-> "true", r |-> FALSE],
    [id |-> NoChar, v |-> 1, ev |-> "absent", r |-> FALSE] }

MCSymmetry == Permutations(MCAddr)
=============================================================================

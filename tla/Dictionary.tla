----------------------------- MODULE Dictionary -----------------------------
(***************************************************************************)
(* What src/strings.c promises, without hashes and chains: a text has one  *)
(* key, the same whenever it is asked for, and a table remembers for each  *)
(* key the value that was last put under it.                               *)
(***************************************************************************)
CONSTANTS Texts, Vals, Nothing

VARIABLES
  known,  \* the texts that have a key
  bound,  \* what the table holds for each text
  answer  \* what the last operation returned; a key is its text

vars == <<known, bound, answer>>

Init ==
  /\ known = {}
  /\ bound = [t \in Texts |-> Nothing]
  /\ answer = Nothing

GetKey(t) ==
  /\ known' = known \cup {t}
  /\ answer' = t
  /\ UNCHANGED bound

Put(t, v) ==
  /\ t \in known
  /\ bound' = [bound EXCEPT ![t] = v]
  /\ answer' = v
  /\ UNCHANGED known

Find(t) ==
  /\ t \in known
  /\ answer' = bound[t]
  /\ UNCHANGED <<known, bound>>

Free ==
  /\ bound' = [t \in Texts |-> Nothing]
  /\ answer' = Nothing
  /\ UNCHANGED known

Next ==
  \/ \E t \in Texts : GetKey(t) \/ Find(t) \/ \E v \in Vals : Put(t, v)
  \/ Free

Spec == Init /\ [][Next]_vars
=============================================================================

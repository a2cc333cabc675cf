------------------------------ MODULE Strings ------------------------------
(***************************************************************************)
(* src/strings.c: the table of all identifiers and the tables of symbols   *)
(* and keywords, as chains of entries in buckets.  A key, a pointer, is    *)
(* its index in "strings"; tables compare keys as pointers.  Neither table *)
(* counts its entries (len stays 0), so that the code that doubles the     *)
(* number of buckets is never reached and is left out.                     *)
(***************************************************************************)
EXTENDS Naturals, Sequences

CONSTANTS
  Texts,    \* the spellings in the source
  Hash,     \* hash(), any function of the spelling
  BASESIZE, \* the number of buckets, a power of two in the code
  Vals,     \* what a table associates with a key: a symbol, a token
  Nothing   \* NULL

ASSUME StringsAssumption ==
  /\ Hash \in [Texts -> Nat]
  /\ BASESIZE \in Nat \ {0}
  /\ Nothing \notin Texts \cup Vals

VARIABLES
  strings,  \* every key allocated: [text, hash]
  allkeys,  \* the chains of keys, the newest first
  table,    \* the chains of one table: [key, val]
  answer    \* what the last operation returned

stringsVars == <<strings, allkeys, table, answer>>

Buckets == 0..(BASESIZE - 1)
Bucket(h) == h % BASESIZE
EmptyChains == [b \in Buckets |-> <<>>]

First(positions) == CHOOSE i \in positions : \A j \in positions : i <= j

(* Where getkey finds the text in its chain.  The mutant looks at the      *)
(* newest key only.                                                        *)
KeyChain(t) == allkeys[Bucket(Hash[t])]
SameText(key, t) == strings[key].hash = Hash[t] /\ strings[key].text = t
NewestKey(t) == {i \in 1..Len(KeyChain(t)) : i = 1 /\ SameText(KeyChain(t)[i], t)}
KeyAt(t) == {i \in 1..Len(KeyChain(t)) : SameText(KeyChain(t)[i], t)}

(* Where the loops of table_put and table_find stop in the chain of a key. *)
EntryAt(chain, key) == {i \in 1..Len(chain) : chain[i].key = key}
-----------------------------------------------------------------------------
StringsInit ==
  /\ strings = <<>>
  /\ allkeys = EmptyChains
  /\ table = EmptyChains
  /\ answer = [kind |-> "none"]

(* getkey *)
GetKey(t) ==
  /\ \/ /\ KeyAt(t) # {}
        /\ answer' = [kind |-> "key", key |-> KeyChain(t)[First(KeyAt(t))]]
        /\ UNCHANGED <<strings, allkeys>>
     \/ /\ KeyAt(t) = {}
        /\ strings' = Append(strings, [text |-> t, hash |-> Hash[t]])
        /\ allkeys' = [allkeys EXCEPT ![Bucket(Hash[t])] = <<Len(strings) + 1>> \o @]
        /\ answer' = [kind |-> "key", key |-> Len(strings) + 1]
  /\ UNCHANGED table

(* Mutant of TablePut: a key that is there gets a second entry, at the end *)
(* of its chain.                                                           *)
TablePutLast(key, v) ==
  /\ table' = [table EXCEPT ![Bucket(strings[key].hash)] = Append(@, [key |-> key, val |-> v])]
  /\ answer' = [kind |-> "val", val |-> v]
  /\ UNCHANGED <<strings, allkeys>>

(* table_put *)
ChainPut(chain, key, v) ==
  LET found == EntryAt(chain, key)
  IN  IF found # {} THEN [chain EXCEPT ![First(found)].val = v]
      ELSE <<[key |-> key, val |-> v]>> \o chain

TablePut(key, v) ==
  /\ table' = [table EXCEPT ![Bucket(strings[key].hash)] = ChainPut(@, key, v)]
  /\ answer' = [kind |-> "val", val |-> v]
  /\ UNCHANGED <<strings, allkeys>>

(* table_find *)
ValueIn(chain, key) ==
  LET found == EntryAt(chain, key) IN IF found # {} THEN chain[First(found)].val ELSE Nothing
Found(key) == ValueIn(table[Bucket(strings[key].hash)], key)

TableFind(key) ==
  /\ answer' = [kind |-> "val", val |-> Found(key)]
  /\ UNCHANGED <<strings, allkeys, table>>

(* table_free, after which the scope and its table are gone: the next one  *)
(* starts empty.                                                           *)
TableFree ==
  /\ table' = EmptyChains
  /\ answer' = [kind |-> "none"]
  /\ UNCHANGED <<strings, allkeys>>

StringsNext ==
  \/ \E t \in Texts : GetKey(t)
  \/ \E key \in 1..Len(strings) : TableFind(key) \/ \E v \in Vals : TablePut(key, v)
  \/ TableFree

StringsSpec == StringsInit /\ [][StringsNext]_stringsVars
-----------------------------------------------------------------------------
(* The variables have their types; chains and entries only hold keys that  *)
(* were allocated.                                                         *)
StringsTypeOK ==
  /\ strings \in Seq([text : Texts, hash : Nat])
  /\ allkeys \in [Buckets -> Seq(1..Len(strings))]
  /\ table \in [Buckets -> Seq([key : 1..Len(strings), val : Vals])]

(* Two identifiers are the same text exactly when they are the same        *)
(* pointer, whatever the hash function does to their spellings: every      *)
(* other table compares pointers only.                                     *)
KeysUnique ==
  /\ StringsTypeOK
  /\ \A k, m \in 1..Len(strings) : strings[k].text = strings[m].text => k = m

(* The dictionary the chains stand for: its keys are texts. *)
KeyOf(t) == CHOOSE k \in 1..Len(strings) : strings[k].text = t
Known == {strings[k].text : k \in 1..Len(strings)}

Promised == INSTANCE Dictionary WITH
  known  <- Known,
  bound  <- [t \in Texts |-> IF t \in Known THEN Found(KeyOf(t)) ELSE Nothing],
  answer <- IF answer.kind = "key" THEN strings[answer.key].text
            ELSE IF answer.kind = "val" THEN answer.val ELSE Nothing

(* Whatever the hashes of the texts, and through whichever mixture of keys *)
(* asked for, values put, replaced, looked up and freed, getkey, table_put *)
(* and table_find answer what a dictionary would.                          *)
TablesAreDictionaries == Promised!Spec
=============================================================================

------------------------------- MODULE EventTable -------------------------------
(***************************************************************************)
(* The command table of the event task (event.c): chains, which            *)
(* event_register fills and dispatch searches from the front.  A code is   *)
(* the pair of main_code and sub_code.                                     *)
(***************************************************************************)
EXTENDS Integers, Sequences

CONSTANTS MAX_EVENT_CHAIN, \* 20 in the code
          Codes,           \* of the frames a host may send
          Callbacks        \* of the application

NoCallback == "none"

ASSUME TableAssumption == /\ MAX_EVENT_CHAIN \in Nat \ {0}
                          /\ NoCallback \notin Callbacks

VARIABLES chains,   \* the entries below chain_index
          promised  \* history: of each code, the callback that event_register
                    \* accepted first, or none

table == <<chains, promised>>
-------------------------------------------------------------------------------
event_init == /\ chains' = <<>>
              /\ promised' = [code \in Codes |-> NoCallback]

FoundAt(code) == {i \in 1 .. Len(chains) : chains[i].code = code}

LastFoundMutant(code) ==
  IF FoundAt(code) = {} THEN -1
  ELSE CHOOSE i \in FoundAt(code) : \A j \in FoundAt(code) : i >= j

event_find_chain(code) ==
  IF FoundAt(code) = {} THEN -1
  ELSE CHOOSE i \in FoundAt(code) : \A j \in FoundAt(code) : i <= j

Dispatched(code) ==
  LET at == event_find_chain(code)
  IN IF at = -1 THEN NoCallback ELSE chains[at].callback

SilentlyFullMutant(code, cbfn) ==
  /\ chains' = IF Len(chains) = MAX_EVENT_CHAIN THEN chains
               ELSE Append(chains, [code |-> code, callback |-> cbfn])
  /\ promised' = [promised EXCEPT ![code] = IF @ = NoCallback THEN cbfn ELSE @]

event_register(code, cbfn) ==
  \/ Len(chains) = MAX_EVENT_CHAIN /\ UNCHANGED table
  \/ /\ Len(chains) # MAX_EVENT_CHAIN
     /\ chains' = Append(chains, [code |-> code, callback |-> cbfn])
     /\ promised' = [promised EXCEPT ![code] = IF @ = NoCallback THEN cbfn ELSE @]
-------------------------------------------------------------------------------
TableInit == chains = <<>> /\ promised = [code \in Codes |-> NoCallback]

TableTypeOK ==
  /\ chains \in Seq([code : Codes, callback : Callbacks])
  /\ Len(chains) <= MAX_EVENT_CHAIN
  /\ promised \in [Codes -> Callbacks \union {NoCallback}]

(***************************************************************************)
(* A frame runs the callback that event_register accepted first for its    *)
(* code, and none where every registration was refused: a full table and a *)
(* second registration of a code take nothing from an earlier one.         *)
(***************************************************************************)
RunsWhatWasRegistered == \A code \in Codes : Dispatched(code) = promised[code]
===============================================================================

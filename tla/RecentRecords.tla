---------------------------- MODULE RecentRecords ---------------------------
(***************************************************************************)
(* What GET /v1/generation?id= and the reasoning replay rely on: the last  *)
(* Capacity records by the moment their id was first stored.  Storing an   *)
(* id that is still held replaces its record where it stands; it does not  *)
(* make the record newer.                                                  *)
(***************************************************************************)
EXTENDS Integers, Sequences

CONSTANTS
  Ids,       (* Generation ids, or tool_call_ids.                          *)
  Records,   (* GenerationRecords, or reasoning traces.                    *)
  Capacity   (* How many records are held.                                 *)

VARIABLE recent   (* The records held, oldest first.                       *)

Init == recent = <<>>

HeldAt(id) == {i \in 1..Len(recent) : recent[i].id = id}

Store(id, record) ==
  recent' =
    IF HeldAt(id) # {}
    THEN [i \in 1..Len(recent) |->
            IF i \in HeldAt(id) THEN [id |-> id, record |-> record] ELSE recent[i]]
    ELSE Append(IF Len(recent) = Capacity THEN Tail(recent) ELSE recent,
                [id |-> id, record |-> record])

Next == \E id \in Ids, record \in Records : Store(id, record)

Spec == Init /\ [][Next]_recent
=============================================================================

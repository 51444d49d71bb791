------------------------------ MODULE FifoCache -----------------------------
(***************************************************************************)
(* rp_router's GenerationCache and ReasoningReplayCache, which are the     *)
(* same structure: an insertion-ordered queue of ids beside a map from ids *)
(* to records.  Every insert runs under the write lock, so it is one step. *)
(***************************************************************************)
EXTENDS Integers, Sequences

CONSTANTS
  Ids,       (* Generation ids, or tool_call_ids.                          *)
  Records,   (* GenerationRecords, or reasoning traces.                    *)
  Capacity,  (* GENERATION_CACHE_CAPACITY.                                 *)
  NoRecord   (* No record.                                                 *)

ASSUME CapacityAssumption == Capacity \in Nat \ {0}
ASSUME NoRecordAssumption == NoRecord \notin Records

VARIABLES
  queue,     (* The queue of ids, oldest first.                            *)
  by_id      (* The map: the record of an id, or NoRecord.                 *)

cache_vars == <<queue, by_id>>

CacheTypeOK ==
  /\ queue \in Seq(Ids) /\ Len(queue) <= Capacity
  /\ by_id \in [Ids -> Records \cup {NoRecord}]

CacheInit ==
  /\ queue = <<>>
  /\ by_id = [id \in Ids |-> NoRecord]

Held(id) == by_id[id] # NoRecord

(* What the push leaves in the queue, and the ids it drops from the map.   *)
QueueTrimmedLate(q) == IF Len(q) > Capacity + 1 THEN Tail(q) ELSE q   \* slip

QueueTrimmed(q) == IF Len(q) > Capacity THEN Tail(q) ELSE q

Dropped(q) == IF Len(q) > Capacity THEN {Head(q)} ELSE {}

(* insert() of an id that is held: only its record changes.                *)
Replace(id, record) ==
  /\ Held(id)
  /\ by_id' = [by_id EXCEPT ![id] = record]
  /\ UNCHANGED queue

(* insert() of a new id.                                                   *)
Add(id, record) ==
  /\ ~Held(id)
  /\ LET pushed == Append(queue, id)
     IN /\ queue' = QueueTrimmed(pushed)
        /\ by_id' = [k \in Ids |-> IF k = id THEN record
                                   ELSE IF k \in Dropped(pushed) THEN NoRecord
                                   ELSE by_id[k]]

CacheNext == \E id \in Ids, record \in Records : Replace(id, record) \/ Add(id, record)

CacheSpec == CacheInit /\ [][CacheNext]_cache_vars

-----------------------------------------------------------------------------
(* The queue and the map never drift apart: every id queued once, every    *)
(* queued id has a record and no other, so the map is bounded as the queue *)
(* is.  (A map entry the queue lost would never be evicted.)               *)
OrderMatchesMap ==
  /\ \A i, j \in 1..Len(queue) : queue[i] = queue[j] => i = j
  /\ \A id \in Ids : Held(id) <=> \E i \in 1..Len(queue) : queue[i] = id

(* The cache implements RecentRecords: the records held are the last       *)
(* Capacity ones, oldest first, each the newest stored for its id.         *)
Recent == INSTANCE RecentRecords WITH
  recent <- [i \in 1..Len(queue) |-> [id |-> queue[i], record |-> by_id[queue[i]]]]

HoldsRecentRecords == Recent!Spec
=============================================================================

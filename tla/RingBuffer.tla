----------------------------- MODULE RingBuffer -----------------------------
(***************************************************************************)
(* The bounded log of a runner: a deque(maxlen=capacity) of records, each  *)
(* tagged with the stream it came from.  Plain operators over sequences,   *)
(* the newest record last.                                                 *)
(***************************************************************************)
EXTENDS Integers, Sequences, Lists

\* Variant, breaks TypeOK: there is no maxlen.
PushUnbounded(buffer, capacity, record) == Append(buffer, record)

\* Variant, breaks LogIsNewest: a full buffer refuses the record.
PushRefusing(buffer, capacity, record) ==
    IF Len(buffer) < capacity THEN Append(buffer, record) ELSE buffer

\* deque.append with a maxlen: the oldest record makes room.
Push(buffer, capacity, record) ==
    IF Len(buffer) < capacity
    THEN Append(buffer, record)
    ELSE Append(Tail(buffer), record)

\* Variant, breaks SnapshotIsNewest: items[:limit].
FirstItems(items, limit) == SubSeq(items, 1, IF limit < Len(items) THEN limit ELSE Len(items))

\* Python's items[-limit:] for limit >= 0; -0 is 0, the start of the list.
LastItems(items, limit) ==
    LET n == Len(items)
        first == IF limit = 0 \/ limit > n THEN 0 ELSE n - limit
    IN  SubSeq(items, first + 1, n)

\* snapshot(stream, limit); without a stream it is of both.
Snapshot(buffer, stream, limit) ==
    LastItems(Selected(buffer, {r \in ToSet(buffer) : stream \in {"both", r.stream}}), limit)

=============================================================================

------------------------------- MODULE Lists -------------------------------
(***************************************************************************)
(* What moves between two snapshots of the agent, how an update of a watch *)
(* tells it and how the client applies it (src/watch.rs, src/wire), as     *)
(* operators over lists.                                                   *)
(*                                                                         *)
(* A list is the set of its rows: in the code it is a vector ordered by    *)
(* pid with no pid twice.  A row has its join key and `told`, which stands *)
(* for the rest of it.  Of the list of services, which is told whole or    *)
(* not at all, the tag is kept.                                            *)
(***************************************************************************)
EXTENDS Integers

\* The list is not held yet, or the caller has no tag: an etag of 0.
Nothing == [etag |-> 0, rows |-> {}]

Key(row) == <<row.pid, row.seq>>
Keys(rows) == {Key(row) : row \in rows}

(***************************************************************************)
(* diff: the walk over both vectors in order of pid comes to this.         *)
(***************************************************************************)
Upserted(before, after) == Keys({row \in after : row \notin before})
Gone(before, after) == Keys(before) \ Keys(after)

\* changes, with the lists told since `before`.
Changes(before, after) ==
  [passports |-> IF before.processes.etag = after.processes.etag THEN {}
                 ELSE Upserted(before.processes.rows, after.processes.rows),
   left |-> IF before.processes.etag = after.processes.etag THEN {}
            ELSE Gone(before.processes.rows, after.processes.rows),
   states |-> IF before.states.etag = after.states.etag THEN {}
              ELSE Upserted(before.states.rows, after.states.rows)]

(***************************************************************************)
(* update (wire/encode.rs): each list whole, unchanged or as a delta.      *)
(***************************************************************************)
Whole(list) == [form |-> "full", rows |-> list.rows]
Unchanged == [form |-> "unchanged"]
Found(rows, keys) == {row \in rows : Key(row) \in keys}
Delta(list, base, left, keys) ==
  [form |-> "delta", base |-> base.etag,
   left |-> {key[2] : key \in left}, upserted |-> Found(list.rows, keys)]

Told(list, base, left, keys) ==
  IF list.etag = base.etag THEN Unchanged ELSE Delta(list, base, left, keys)

\* `known` is whether the client was told lists before.
Update(known, before, after) ==
  [passport_etag |-> after.processes.etag,
   states_etag |-> after.states.etag,
   services_etag |-> after.services,
   passports |-> IF ~known THEN Whole(after.processes)
                 ELSE Told(after.processes, before.processes,
                           Changes(before, after).left, Changes(before, after).passports),
   states |-> IF ~known THEN Whole(after.states)
              ELSE Told(after.states, before.states,
                        Changes(before, after).left, Changes(before, after).states)]

(***************************************************************************)
(* lists (wire/decode.rs): applied to what the client holds.               *)
(***************************************************************************)
MergeKept(before, left, upserted) ==
  {row \in before : \A new \in upserted : new.pid # row.pid} \cup upserted
Merge(before, left, upserted) ==
  {row \in before : row.seq \notin left /\ \A new \in upserted : new.pid # row.pid} \cup upserted

\* held and based: what is told must be told of lists that are held.
Applies(holds, list, told) ==
  /\ told.form # "full" => holds
  /\ told.form = "delta" => list.etag = told.base
Applied(list, told) ==
  CASE told.form = "full" -> told.rows
    [] told.form = "unchanged" -> list.rows
    [] told.form = "delta" -> Merge(list.rows, told.left, told.upserted)

Understood(holds, held, update) ==
  /\ Applies(holds, held.processes, update.passports)
  /\ Applies(holds, held.states, update.states)
Decoded(held, update) ==
  [services |-> update.services_etag,
   processes |-> [etag |-> update.passport_etag, rows |-> Applied(held.processes, update.passports)],
   states |-> [etag |-> update.states_etag, passport_etag |-> update.passport_etag,
               rows |-> Applied(held.states, update.states)]]
=============================================================================

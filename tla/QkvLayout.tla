---------------------------- MODULE QkvLayout ----------------------------
(* Rows of a fused QKV matrix, grouped per query group in a checkpoint and *)
(* Q|K|V at run time (comfy_omni.domain.qkv). A layout is                  *)
(* [groups, heads, dim]; rows count from 0.                                *)
EXTENDS Integers, SequencesExt

PerGroup(layout) == (layout.heads + 2) * layout.dim
QkvRows(layout) == layout.groups * PerGroup(layout)

(* Grouped rows in runtime order: all queries, then all keys, then values. *)
GroupedToQkv(layout) ==
  LET width == layout.heads * layout.dim
      rows(g, first, count) == [i \in 1..count |-> (g - 1) * PerGroup(layout) + first + i - 1]
      all(first, count) == FlattenSeq([g \in 1..layout.groups |-> rows(g, first, count)])
  IN all(0, width) \o all(width, layout.dim) \o all(width + layout.dim, layout.dim)

QkvToGrouped(layout) ==
  LET forward == GroupedToQkv(layout)
  IN [i \in 1..QkvRows(layout) |-> (CHOOSE r \in 1..QkvRows(layout) : forward[r] = i - 1) - 1]
=============================================================================

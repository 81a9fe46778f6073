---------------------------- MODULE Distributions ---------------------------
(***************************************************************************)
(* Where the n elements of a distributed structure are: the distributions  *)
(* of parallel/distribution.hpp.  One is modelled as a record of           *)
(* functions: how many elements a process keeps (block_size), the process  *)
(* of an element (owner), its place there (local), and the element at a    *)
(* place (global).                                                         *)
(*                                                                         *)
(* A graph makes as many vertices as block_size says and looks for vertex  *)
(* i at owner and local; a program goes over its vertices and asks for     *)
(* global.  A call builds a graph whose vertices process 0 then marks with *)
(* their numbers.                                                          *)
(***************************************************************************)
EXTENDS BSP

DIST == "distribution"
Processes == Cardinality(Proc)
Indices(n) == 0 .. n - 1

-----------------------------------------------------------------------------
(* block: the first n % p processes have one element more *)

block_size(n, id) == n \div Processes + (IF n % Processes > id THEN 1 ELSE 0)
block_start(n, id) ==
  LET estimate == id * (n \div Processes + 1)
      cutoff_processor == n % Processes
  IN IF id < cutoff_processor THEN estimate ELSE estimate - (id - cutoff_processor)
block_owner(n, i) ==
  LET cutoff_processor == n % Processes
      cutoff == cutoff_processor * (n \div Processes + 1)
  IN IF i < cutoff THEN i \div (n \div Processes + 1) ELSE cutoff_processor + (i - cutoff) \div (n \div Processes)

block(n) ==
  LET size == [id \in Proc |-> block_size(n, id)]
  IN [block_size |-> size,
      owner |-> [i \in Indices(n) |-> block_owner(n, i)],
      local |-> [i \in Indices(n) |-> i - block_start(n, block_owner(n, i))],
      global |-> [id \in Proc |-> [j \in Indices(size[id]) |-> j + block_start(n, id)]]]

-----------------------------------------------------------------------------
(* uneven_block: blocks of given sizes *)

local_starts(sizes) == [id \in 0 .. Processes |-> SumFunctionOnSet(sizes, {q \in Proc : q < id})]
\* lower_bound in the starts, or the one before.
uneven_owner(sizes, i) ==
  LET starts == local_starts(sizes)
      lb == Min({id \in 0 .. Processes : starts[id] >= i})
  IN IF starts[lb] = i THEN lb ELSE lb - 1

uneven_block(sizes) ==
  LET n == local_starts(sizes)[Processes]
  IN [block_size |-> sizes,
      owner |-> [i \in Indices(n) |-> uneven_owner(sizes, i)],
      local |-> [i \in Indices(n) |-> i - local_starts(sizes)[uneven_owner(sizes, i)]],
      global |-> [id \in Proc |-> [j \in Indices(sizes[id]) |-> j + local_starts(sizes)[id]]]]

-----------------------------------------------------------------------------
(* oned_block_cyclic: blocks dealt out in turn.  block_size compares the number of *)
(* processes, where it should compare the process, with the blocks that are left.  *)

cyclic_block_size(size, n) ==
  LET all_blocks == n \div size
      extra_blocks == all_blocks % Processes
      my_blocks == all_blocks \div Processes + (IF Processes < extra_blocks THEN 1 ELSE 0)
  IN my_blocks * size + (IF Processes = extra_blocks THEN n % size ELSE 0)

oned_block_cyclic(size, n) ==
  LET sizes == [id \in Proc |-> cyclic_block_size(size, n)]
  IN [block_size |-> sizes,
      owner |-> [i \in Indices(n) |-> (i \div size) % Processes],
      local |-> [i \in Indices(n) |-> ((i \div size) \div Processes) * size + (i % size)],
      global |-> [id \in Proc |-> [j \in Indices(sizes[id]) |-> ((j \div size) * Processes + id) * size + (j % size)]]]

-----------------------------------------------------------------------------
(* twod_block_cyclic, and twod_random with the blocks in any order: blocks of rows *)
(* and columns of a table.  They have no element at a place of another process.    *)

\* Counts down a column of blocks, in steps of the blocks in a row.
get_block_num(d, i) ==
  LET block_row == (i \div d.data_columns_per_row) \div d.rows
      block_col == (i % d.data_columns_per_row) \div d.columns
  IN d.order[block_col * (d.data_columns_per_row \div d.columns) + block_row]

twod_local(d, i) ==
  LET block_start_ == (get_block_num(d, i) \div Processes) * d.rows * d.columns
      data_row == i \div d.data_columns_per_row
      data_col == i % d.data_columns_per_row
  IN block_start_ + (data_row % d.rows) * d.columns + (data_col % d.columns)

\* block_size: one more than the largest place in use.
twod(d, n) ==
  LET owner == [i \in Indices(n) |-> get_block_num(d, i) % Processes]
      places(id) == {twod_local(d, i) : i \in {i \in Indices(n) : owner[i] = id}}
  IN [block_size |-> [id \in Proc |-> Max(places(id) \cup {-1}) + 1],
      owner |-> owner,
      local |-> [i \in Indices(n) |-> twod_local(d, i)]]

-----------------------------------------------------------------------------
(* Distributions on top of others *)

Inverse_of(f) == [y \in Range(f) |-> CHOOSE x \in DOMAIN f : f[x] = y]

random_distribution(n, local_to_global) ==
  LET base == block(n)
      global_to_local == Inverse_of(local_to_global)
  IN [block_size |-> base.block_size,
      owner |-> [i \in Indices(n) |-> base.owner[global_to_local[i]]],
      local |-> [i \in Indices(n) |-> base.local[global_to_local[i]]],
      global |-> [id \in Proc |-> [j \in Indices(base.block_size[id]) |-> local_to_global[base.global[id][j]]]]]

\* What an adjacency list makes of every distribution: the processes change places.
shuffled_distribution(base, mapping) ==
  LET reverse_mapping == Inverse_of(mapping)
      size == [id \in Proc |-> base.block_size[reverse_mapping[id]]]
      moved == [block_size |-> size,
                owner |-> [i \in DOMAIN base.owner |-> mapping[base.owner[i]]],
                local |-> base.local]
  IN IF "global" \notin DOMAIN base THEN moved
     ELSE moved @@ [global |-> [id \in Proc |-> [j \in Indices(size[id]) |-> base.global[reverse_mapping[id]][j]]]]

-----------------------------------------------------------------------------
(* A call *)

Base ==
  CASE input.kind = "block" -> block(input.n)
    [] input.kind = "uneven_block" -> uneven_block(input.sizes)
    [] input.kind = "oned_block_cyclic" -> oned_block_cyclic(input.size, input.n)
    [] input.kind = "twod" -> twod(input.table, input.n)
    [] input.kind = "random_distribution" -> random_distribution(input.n, input.local_to_global)
Distribution == shuffled_distribution(Base, input.mapping)

\* mark[j]: the numbers put to the vertex at place j; lost: those put where there is none.
dist_Start(p) == [mark |-> [j \in Indices(Distribution.block_size[p]) |-> << >>], lost |-> << >>]

dist_put(d, m) == IF m.local \in DOMAIN d.mark THEN [d EXCEPT !.mark[m.local] = Append(@, m.i)] ELSE [d EXCEPT !.lost = Append(@, m.i)]
dist_Work(p) ==
  /\ Runs(DIST) /\ Turn(p)
  /\ \E d \in {Distribution} :
       LET put(i) == [to |-> d.owner[i], body |-> [local |-> d.local[i], i |-> i]]
       IN Works(p, data[p], IF p = 0 THEN [k \in 1 .. Cardinality(DOMAIN d.owner) |-> put(k - 1)] ELSE << >>, "sync")
dist_handle(d, p, from, m) == [data |-> dist_put(d, m), sends |-> << >>]
dist_Handle == Runs(DIST) /\ Handles(dist_handle)
dist_End == Runs(DIST) /\ Quiet /\ Returns(data, Distribution)

dist_Next == (\E p \in Proc : dist_Work(p)) \/ dist_Handle \/ dist_End

-----------------------------------------------------------------------------
\* Every vertex is found once, and by the number that its process knows it by.
DistributionsAgree ==
  input.algorithm = DIST /\ done =>
    \A p \in Proc :
      /\ data[p].lost = << >>
      /\ \A j \in DOMAIN data[p].mark :
           /\ Len(data[p].mark[j]) = 1
           /\ "global" \in DOMAIN result => data[p].mark[j] = << result.global[p][j] >>
=============================================================================

------------------------------ MODULE MCCorpus ------------------------------
(***************************************************************************)
(* Shards of small snapshots, whose pages, stacks and code meet in all the *)
(* ways that matter to the layout of a corpus and to the plays in it.      *)
(***************************************************************************)
EXTENDS CorpusPlay

LOCAL Map(page, n, p) == P!Entry(page * kPageSize, (page + n) * kPageSize,
                                 P!Flat(page * kPageSize, (page + n) * kPageSize, p))
LOCAL Put(at, data) == [a \in at..(at + Len(data) - 1) |-> data[a - at + 1]]

LOCAL Code == <<1, 2, 3, 4, 7, 7, 5, 6>>  \* as merged with the exit sequence
LOCAL Regs(g) == [gregs |-> g, fpregs |-> "f"]
LOCAL End(address, rsp, g, bytes) ==
  [type |-> "instruction", address |-> address, rsp |-> rsp, regs |-> Regs(g),
   bytes |-> bytes, complete |-> TRUE, platforms |-> {"p1"}]
LOCAL Source(id, mappings, bytes, ends) ==
  [id |-> id, mappings |-> mappings, bytes |-> bytes, regs |-> Regs("g0"), ends |-> ends]

\* Code in page 1, nothing said of the stack in page 3.
LOCAL A == Source("A", {Map(1, 1, {"r", "x"}), Map(3, 1, {"r", "w"})}, Put(8, Code),
                  <<End(12, 26, "g1", Put(25, <<3>>))>>)
\* The same code in page 2, a stack that ends as zero, an end state of another platform.
LOCAL B == Source("B", {Map(2, 1, {"r", "x"}), Map(3, 1, {"r", "w"})},
                  Put(16, Code) @@ Put(24, <<3>>),
                  <<[End(20, 26, "g2", Put(24, <<1>>)) EXCEPT !.platforms = {"p2"}],
                    End(20, 26, "g0", Put(24, <<0>>))>>)
\* Code that writes to itself, by the stack.
LOCAL C == Source("C", {Map(3, 1, {"r", "w"}), Map(4, 1, {"r", "w", "x"})},
                  Put(32, SubSeq(Code, 1, 4)), <<End(36, 26, "g1", Put(33, <<5>>))>>)
\* The page of A's code with other bytes.
LOCAL D == Source("D", {Map(1, 1, {"r"}), Map(2, 2, {"r", "x"}), Map(4, 1, {"r", "w"})},
                  Put(8, <<1>>), <<End(20, 34, "g1", <<>>)>>)
\* A's code again as data, across two pages.
LOCAL X == Source("X", {Map(2, 1, {"r", "x"}), Map(3, 2, {"r", "w"})}, Put(28, Code),
                  <<End(16, 26, "g1", Put(24, <<1>>))>>)
\* Nothing is known but where it ends.
LOCAL U == Source("U", {Map(1, 1, {"r", "x"}), Map(3, 1, {"r", "w"})}, Put(8, Code),
                  <<[End(12, 0, "", <<>>) EXCEPT !.complete = FALSE,
                                                 !.regs = [gregs |-> "", fpregs |-> ""]]>>)

SomeShards == {<<A, B>>, <<B, C, A, D>>, <<X, A>>, <<D, B, X>>, <<U, B>>}

LOCAL Opts(compress, direct, undefined) ==
  [compress_repeating_bytes |-> compress, support_direct_mmap |-> direct,
   allow_undefined_end_state |-> undefined, platform |-> "p1"]
SomeOptions == {Opts(TRUE, TRUE, FALSE), Opts(TRUE, FALSE, FALSE), Opts(FALSE, TRUE, TRUE)}

SomeExit == <<7, 7>>
SomeMemory == 8..39

Sizes == [corpus |-> 6, pointer |-> 2, snap |-> 14, mapping |-> 8, bytes |-> 6,
          gregs |-> 6, fpregs |-> 4, id |-> 3]
=============================================================================

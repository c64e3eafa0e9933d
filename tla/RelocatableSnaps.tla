--------------------------- MODULE RelocatableSnaps ---------------------------
(***************************************************************************)
(* snap/gen/relocatable_snap_generator.cc over relocatable_data_block.cc,  *)
(* and snap/snap_relocator.cc: a corpus file and its relocation.           *)
(*                                                                         *)
(* An image is a set of objects [at, kind, val]: what the file holds at an *)
(* offset, or memory at an address.  An object with pointers holds their   *)
(* values.  The generator goes twice over the same sequence of requests    *)
(* for space; a request is known by its path.                              *)
(***************************************************************************)
EXTENDS Snapify

CONSTANTS kPageSize,
          Word,     \* sizeof(uint64_t), the alignment of the structures
          SizeOf,   \* of each kind of structure
          FpAlign   \* alignof(FPRegSet)

\* The sub-blocks of the main block, in its order: those with pointers first.
Blocks == <<"snap", "memory_bytes", "memory_mapping", "byte_data", "string",
            "fpregs", "gregs", "page_data">>
Deduped == {"data", "gregs", "fpregs"}

\* RelocatableDataBlock: its size and the widest alignment asked of it.
EmptyBlock == [size |-> 0, alignment |-> 1]
BlockAfter(block, size, alignment) ==
  [size |-> AlignUp(block.size, alignment) + size, alignment |-> Max({block.alignment, alignment})]

-----------------------------------------------------------------------------
(* What the generator asks for *)

Request(path, block, size, alignment) ==
  [path |-> path, block |-> block, size |-> size, alignment |-> alignment, table |-> "none", key |-> <<>>]
Structs(path, block, kind, n) == Request(path, block, n * SizeOf[kind], Word)
Keyed(request, table, key) == [request EXCEPT !.table = table, !.key = key]

BytesIn(s, m) ==
  SelectSeq(s.bytes, LAMBDA b : m.start <= b.start /\ b.start + Len(b.data) <= m.limit)

\* The lists of bytes of a snap, in the order of the traversal: those of its
\* mappings, then that of its end state.
ByteLists(s) ==
  Append([j \in DOMAIN s.mappings |-> BytesIn(s, s.mappings[j])], s.end_bytes)

Compressed(b, opts) == opts.compress_repeating_bytes /\ IsRepeatingByteRun(b.data)

BytesRequest(path, b) ==
  Keyed(IF b.start % kPageSize = 0 /\ Len(b.data) % kPageSize = 0
        THEN Request(path, "page_data", Len(b.data), kPageSize)
        ELSE Request(path, "byte_data", Len(b.data), Word),
        "data", b.data)

SnapRequests(i, s, opts) ==
  LET lists == ByteLists(s)
      Regs(name, regs) ==
        <<Keyed(Structs(<<i, name, "gregs">>, "gregs", "gregs", 1), "gregs", regs.gregs),
          Keyed(Request(<<i, name, "fpregs">>, "fpregs", SizeOf["fpregs"], FpAlign),
                "fpregs", regs.fpregs)>>
  IN  <<Request(<<i, "id">>, "string", SizeOf["id"], 1),
        Structs(<<i, "mappings">>, "memory_mapping", "mapping", Len(s.mappings))>>
      \o FlattenSeq([j \in DOMAIN lists |->
           <<Structs(<<i, "bytes", j>>, "memory_bytes", "bytes", Len(lists[j]))>>
           \o FlattenSeq([k \in DOMAIN lists[j] |->
                IF Compressed(lists[j][k], opts) THEN <<>>
                ELSE <<BytesRequest(<<i, "data", j, k>>, lists[j][k])>>])])
      \o Regs("regs", s.regs) \o Regs("end_regs", s.end_regs)

Requests(snaps, opts) ==
  <<Structs(<<"corpus">>, "snap", "corpus", 1),
    Structs(<<"array">>, "snap", "pointer", Len(snaps)),
    Structs(<<"snaps">>, "snap", "snap", Len(snaps))>>
  \o FlattenSeq([i \in DOMAIN snaps |-> SnapRequests(i, snaps[i], opts)])

-----------------------------------------------------------------------------
(* The traversal *)

NoTables == [t \in Deduped |-> <<>>]

\* Mutant: the second pass goes on with the tables of the first.
Kept(layout) == layout.tables

\* The tables of the second pass are cleared.
Cleared(layout) == NoTables

\* One request: a reference seen before, or a new place in its block.
Allocate(pass, r) ==
  IF r.table \in Deduped /\ r.key \in DOMAIN pass.tables[r.table]
  THEN [pass EXCEPT !.refs = @ @@ (r.path :> pass.tables[r.table][r.key])]
  ELSE LET ref == [block |-> r.block, offset |-> AlignUp(pass.blocks[r.block].size, r.alignment)]
       IN  [blocks |-> [pass.blocks EXCEPT ![r.block] = BlockAfter(@, r.size, r.alignment)],
            refs |-> pass.refs @@ (r.path :> ref),
            fresh |-> pass.fresh \cup {r.path},
            tables |-> IF r.table \in Deduped
                       THEN [pass.tables EXCEPT ![r.table] = @ @@ (r.key :> ref)]
                       ELSE pass.tables]

Traverse(requests, tables) ==
  FoldLeft(Allocate, [blocks |-> [b \in Range(Blocks) |-> EmptyBlock], refs |-> <<>>,
                      fresh |-> {}, tables |-> tables], requests)

\* main_block_ when the sub-blocks are merged into it, and where each starts.
MainBlock(blocks) ==
  FoldLeft(LAMBDA main, b :
             LET after == BlockAfter(main.block, blocks[b].size, blocks[b].alignment)
             IN  [block |-> after, starts |-> main.starts @@ (b :> after.size - blocks[b].size)],
           [block |-> EmptyBlock, starts |-> <<>>], Blocks)

\* The two passes: the first lays the blocks out, the second fills them.
Layout(snaps, opts) == Traverse(Requests(snaps, opts), NoTables)
Generation(snaps, opts) == Traverse(Requests(snaps, opts), Cleared(Layout(snaps, opts)))

-----------------------------------------------------------------------------
(* The contents *)

Object(at, kind, val) == [at |-> at, kind |-> kind, val |-> val]
Array(size, elements) == [size |-> size, elements |-> elements]

\* What checksums are taken of stands for them: the bytes of a mapping, the sets of
\* registers, the whole file without the field itself.
AllBytes(list) == FlattenSeq([k \in DOMAIN list |-> list[k].data])

\* A register set that was never recorded is all zero.
RegisterSet(serialized) == IF serialized = "" THEN "zero" ELSE serialized
Sets(regs) == [gregs |-> RegisterSet(regs.gregs), fpregs |-> RegisterSet(regs.fpregs)]

\* The objects written for snap i, with the addresses of all paths and those that were
\* allocated and not seen before.
SnapObjects(i, s, opts, addresses, fresh) ==
  LET lists == ByteLists(s)
      At(path) == addresses[path]
      Fresh(path) == path \in fresh
      View(name) == [gregs |-> At(<<i, name, "gregs">>), fpregs |-> At(<<i, name, "fpregs">>)]
      Element(path, kind, n) == At(path) + (n - 1) * SizeOf[kind]
      BytesArray(j) == Array(Len(lists[j]), At(<<i, "bytes", j>>))
      BytesVal(j, k) ==
        LET b == lists[j][k]
        IN  IF Compressed(b, opts)
            THEN [start |-> b.start, size |-> Len(b.data), repeating |-> TRUE, value |-> b.data[1]]
            ELSE [start |-> b.start, size |-> Len(b.data), repeating |-> FALSE,
                  elements |-> At(<<i, "data", j, k>>)]
      Registers(name, regs) ==
        {Object(At(<<i, name, f>>), f, RegisterSet(regs[f])) :
           f \in {g \in {"gregs", "fpregs"} : Fresh(<<i, name, g>>)}}
  IN  {Object(At(<<i, "id">>), "id", s.id),
       Object(Element(<<"array">>, "pointer", i), "pointer", Element(<<"snaps">>, "snap", i)),
       Object(Element(<<"snaps">>, "snap", i), "snap",
              [id |-> At(<<i, "id">>),
               mappings |-> Array(Len(s.mappings), At(<<i, "mappings">>)),
               regs |-> View("regs"), end_address |-> s.end_address,
               end_regs |-> View("end_regs"), end_bytes |-> BytesArray(Len(lists)),
               checksum |-> Sets(s.regs), end_checksum |-> Sets(s.end_regs)])}
      \cup {Object(Element(<<i, "mappings">>, "mapping", j), "mapping",
                   [start |-> s.mappings[j].start, limit |-> s.mappings[j].limit,
                    perms |-> s.mappings[j].perms, bytes |-> BytesArray(j),
                    checksum |-> AllBytes(lists[j])]) : j \in DOMAIN s.mappings}
      \cup (UNION {{Object(Element(<<i, "bytes", j>>, "bytes", k), "bytes", BytesVal(j, k)) :
                      k \in DOMAIN lists[j]} : j \in DOMAIN lists})
      \cup (UNION {{Object(At(<<i, "data", j, k>>), "data", lists[j][k].data) :
                      k \in {n \in DOMAIN lists[j] : Fresh(<<i, "data", j, n>>)}} :
                    j \in DOMAIN lists})
      \cup Registers("regs", s.regs) \cup Registers("end_regs", s.end_regs)

\* The file: its size is that of the buffer the first pass asked for.
GenerateRelocatableSnaps(snaps, opts) ==
  LET layout == Layout(snaps, opts)
      pass == Generation(snaps, opts)
      main == MainBlock(layout.blocks)
      addresses == [path \in DOMAIN pass.refs |->
                      main.starts[pass.refs[path].block] + pass.refs[path].offset]
      objects == {Object(addresses[<<"corpus">>], "corpus",
                         [num_bytes |-> MainBlock(pass.blocks).block.size,
                          snaps |-> Array(Len(snaps), addresses[<<"array">>])])}
                 \cup UNION {SnapObjects(i, snaps[i], opts, addresses, pass.fresh) :
                               i \in DOMAIN snaps}
  IN  [size |-> main.block.size, objects |-> objects, checksum |-> objects]

-----------------------------------------------------------------------------
(* Relocation *)

SizeAt(o) == IF o.kind = "data" THEN Len(o.val) ELSE SizeOf[o.kind]
AlignmentOf(kind) == CASE kind \in {"data", "id"} -> 1
                       [] kind = "fpregs" -> FpAlign
                       [] OTHER -> Word

\* The pointers of an object: [to, kind, size], and the object with all of them moved.
PointersOf(o) ==
  LET To(p, kind, size) == {[to |-> p, kind |-> kind, size |-> size]}
      Arr(a, kind) == IF a.size = 0 THEN {} ELSE To(a.elements, kind, a.size * SizeOf[kind])
      View(v) == To(v.gregs, "gregs", SizeOf["gregs"]) \cup To(v.fpregs, "fpregs", SizeOf["fpregs"])
  IN  CASE o.kind = "corpus"  -> Arr(o.val.snaps, "pointer")
        [] o.kind = "pointer" -> To(o.val, "snap", SizeOf["snap"])
        [] o.kind = "snap"    -> To(o.val.id, "id", 1) \cup Arr(o.val.mappings, "mapping")
                                 \cup View(o.val.regs) \cup View(o.val.end_regs)
                                 \cup Arr(o.val.end_bytes, "bytes")
        [] o.kind = "mapping" -> Arr(o.val.bytes, "bytes")
        [] o.kind = "bytes" /\ ~ o.val.repeating -> To(o.val.elements, "data", 1)
        [] OTHER -> {}

Moved(o, base) ==
  LET Arr(a) == IF a.size = 0 THEN a ELSE [a EXCEPT !.elements = @ + base]
      View(v) == [f \in DOMAIN v |-> v[f] + base]
      val == CASE o.kind = "corpus"  -> [o.val EXCEPT !.snaps = Arr(@)]
               [] o.kind = "pointer" -> o.val + base
               [] o.kind = "snap"    -> [o.val EXCEPT !.id = @ + base, !.mappings = Arr(@),
                                           !.regs = View(@), !.end_regs = View(@),
                                           !.end_bytes = Arr(@)]
               [] o.kind = "mapping" -> [o.val EXCEPT !.bytes = Arr(@)]
               [] o.kind = "bytes" /\ ~ o.val.repeating -> [o.val EXCEPT !.elements = @ + base]
               [] OTHER -> o.val
  IN  [o EXCEPT !.at = @ + base, !.val = val]

ValidateRelocatedAddress(p, base, limit) ==
  /\ base <= p.to /\ p.to + p.size <= limit
  /\ p.to % AlignmentOf(p.kind) = 0

\* The image at base, and what RelocateCorpus says of a file of this size there.
Relocated(image, base) == {Moved(o, base) : o \in image.objects}
CorpusOf(objects) == CHOOSE o \in objects : o.kind = "corpus"

RelocateCorpus(image, base, size, verify) ==
  CASE size = 0 -> "kEmptyCorpus"
    [] size # 0 /\ CorpusOf(image.objects).val.num_bytes # size -> "kBadData"
    [] OTHER ->
         IF verify /\ image.objects # image.checksum THEN "kBadChecksum"
         ELSE IF \A o \in Relocated(image, base) : \A p \in PointersOf(o) :
                   ValidateRelocatedAddress(p, base, base + size)
         THEN "kOk" ELSE "kOutOfBound"

-----------------------------------------------------------------------------
(* The corpus in memory *)

ObjectAt(objects, at, kind) == CHOOSE o \in objects : o.at = at /\ o.kind = kind
Elements(objects, array, kind) ==
  [n \in 1..array.size |-> ObjectAt(objects, array.elements + (n - 1) * SizeOf[kind], kind).val]

\* What was never written is zero.
ValueAt(objects, at, kind, zero) ==
  LET there == {o \in objects : o.at = at /\ o.kind = kind}
  IN  IF there = {} THEN zero ELSE (CHOOSE o \in there : TRUE).val

\* SnapMemoryBytesData.
DataOf(objects, b) ==
  IF b.repeating THEN [n \in 1..b.size |-> b.value]
  ELSE ValueAt(objects, b.elements, "data", [n \in 1..b.size |-> 0])
BytesOf(objects, array) ==
  LET list == Elements(objects, array, "bytes")
  IN  [k \in DOMAIN list |-> [start |-> list[k].start, data |-> DataOf(objects, list[k])]]
RegsOf(objects, view) == [f \in DOMAIN view |-> ValueAt(objects, view[f], f, "zero")]

SnapsOf(objects) ==
  LET pointers == Elements(objects, CorpusOf(objects).val.snaps, "pointer")
  IN  [i \in DOMAIN pointers |-> ObjectAt(objects, pointers[i], "snap").val]

\* A snap read back through its pointers: SnapToSnapshot.
SnapToSnapshot(objects, snap) ==
  LET maps == Elements(objects, snap.mappings, "mapping")
  IN  [id |-> ObjectAt(objects, snap.id, "id").val,
       mappings |-> [j \in DOMAIN maps |->
                       [start |-> maps[j].start, limit |-> maps[j].limit, perms |-> maps[j].perms]],
       bytes |-> FlattenSeq([j \in DOMAIN maps |-> BytesOf(objects, maps[j].bytes)]),
       regs |-> RegsOf(objects, snap.regs),
       end_address |-> snap.end_address,
       end_regs |-> RegsOf(objects, snap.end_regs),
       end_bytes |-> BytesOf(objects, snap.end_bytes)]
=============================================================================

------------------------------ MODULE PageTable ------------------------------
(***************************************************************************)
(* proxies/page_table: the page tables that let a proxy without operating  *)
(* system run a snapshot (page_table_creator.cc, page_table_entry_util.cc) *)
(* and the image of memory behind such a table (memory_state_image.cc).    *)
(*                                                                         *)
(* The two architectures encode an entry differently and mean the same: it *)
(* is valid, has the number of a page, and allows writing and executing.   *)
(* Tables lie one after the other from page_table_addr on.                 *)
(***************************************************************************)
EXTENDS Integers, Sequences, SequencesExt, Functions

CONSTANTS kNumLevels,
          kTableSize,           \* entries of a table
          kTranslationGranule,  \* bytes of a page and of a table
          PageTableAddrs,
          Calls,                \* [start, num_bytes, perms, physical_addr]
          MaxMappings,
          ImageInputs           \* [memory, physical_address, external]

VARIABLES creator, \* entries_, page_tables_ and page_table_addr_
          calls,   \* what was asked for, and whether the answer was OkStatus
          image    \* of the memory state that was built last

ptvars == <<creator, calls, image>>

Levels == 0..(kNumLevels - 1)
EntrySize == kTranslationGranule \div kTableSize

-----------------------------------------------------------------------------
(* Addresses *)

\* The bytes behind an entry, and behind all of the table.
EntrySpan(level) == kTranslationGranule * kTableSize^(kNumLevels - 1 - level)
TableSpan(level) == EntrySpan(level) * kTableSize
AddressLimit == TableSpan(0)

table_index_l(va, level) == (va \div EntrySpan(level)) % kTableSize
starting_interval(va, level) == va - (va % TableSpan(level))
physical_address_msbs(pa) == (pa % AddressLimit) \div kTranslationGranule

CheckAlignmentAndSize(value) == value \in 0..(AddressLimit - 1) /\ value % kTranslationGranule = 0

-----------------------------------------------------------------------------
(* Entries *)

Entry(address, writeable, executable) ==
  [valid |-> TRUE, address |-> address, writeable |-> writeable, executable |-> executable]
ZeroEntry == [valid |-> FALSE, address |-> 0, writeable |-> FALSE, executable |-> FALSE]
NewTable == [i \in 1..kTableSize |-> ZeroEntry]

CreatePageDescriptor(pa, writeable, executable) ==
  Entry(physical_address_msbs(pa), writeable, executable)
AlreadyExists(existing, new) == existing.valid /\ existing # new

\* Mutant: the permissions of the first mapping behind it.
CreateTableDescriptor(existing, next_table_pa, writeable, executable) ==
  IF existing.valid THEN existing
  ELSE Entry(physical_address_msbs(next_table_pa), writeable, executable)

\* As permissive as any mapping behind it requires.
UpdateTableDescriptor(existing, next_table_pa, writeable, executable) ==
  LET old == IF existing.valid THEN existing
             ELSE Entry(physical_address_msbs(next_table_pa), FALSE, FALSE)
  IN  [old EXCEPT !.writeable = @ \/ writeable, !.executable = @ \/ executable]

\* CheckPageDescriptor and CheckTableDescriptor.
Allows(entry, writeable, executable) ==
  /\ entry.valid
  /\ writeable => entry.writeable
  /\ executable => entry.executable

-----------------------------------------------------------------------------
(* PageTableCreator *)

PageTableCreator(page_table_addr) ==
  [entries |-> NewTable, page_table_addr |-> page_table_addr,
   page_tables |-> [level \in Levels |-> IF level = 0 THEN [a \in {0} |-> 0] ELSE <<>>]]

\* GetPageTableEntryIndex adds the table if there is none, and returns an index.
WithTable(c, va, level) ==
  LET start == starting_interval(va, level)
  IN  IF start \in DOMAIN c.page_tables[level] THEN c
      ELSE [c EXCEPT !.page_tables[level] = @ @@ [a \in {start} |-> Len(c.entries)],
                     !.entries = @ \o NewTable]
EntryIndex(c, va, level) ==
  c.page_tables[level][starting_interval(va, level)] + table_index_l(va, level) + 1

SetupPageDescriptor(c, va, pa, writeable, executable) ==
  LET d == WithTable(c, va, kNumLevels - 1)
      new == CreatePageDescriptor(pa, writeable, executable)
      i == EntryIndex(d, va, kNumLevels - 1)
  IN  IF AlreadyExists(d.entries[i], new) THEN [c |-> d, ok |-> FALSE]
      ELSE [c |-> [d EXCEPT !.entries[i] = new], ok |-> TRUE]

\* From the last level of tables up to the first; an entry that did not change ends it,
\* since those above it should not change either.
SetupTableDescriptor(c, va, writeable, executable) ==
  LET Setup(progress, level) ==
        IF progress.unchanged THEN progress
        ELSE LET d == WithTable(progress.c, va, level)
                 i == EntryIndex(d, va, level)
                 next == d.page_tables[level + 1][starting_interval(va, level + 1)]
                 entry == UpdateTableDescriptor(d.entries[i],
                            next * EntrySize + d.page_table_addr, writeable, executable)
             IN  [c |-> [d EXCEPT !.entries[i] = entry], unchanged |-> entry = d.entries[i]]
  IN  FoldLeft(Setup, [c |-> c, unchanged |-> FALSE],
               Reverse([n \in 1..(kNumLevels - 1) |-> n - 1])).c

\* Page by page until one conflicts: those before it stay.
AddContiguousMapping(c, m) ==
  LET writeable == "w" \in m.perms
      executable == "x" \in m.perms
      Add(progress, n) ==
        IF ~progress.ok THEN progress
        ELSE LET va == m.start + n * kTranslationGranule
                 page == SetupPageDescriptor(progress.c, va,
                           m.physical_addr + n * kTranslationGranule, writeable, executable)
             IN  IF page.ok
                 THEN [page EXCEPT !.c = SetupTableDescriptor(@, va, writeable, executable)]
                 ELSE page
      last == m.num_bytes - kTranslationGranule
  IN  IF \A value \in {m.start, m.physical_addr, m.num_bytes, m.start + last,
                       m.physical_addr + last} : CheckAlignmentAndSize(value)
      THEN FoldLeft(Add, [c |-> c, ok |-> TRUE],
                    [n \in 1..(m.num_bytes \div kTranslationGranule) |-> n - 1])
      ELSE [c |-> c, ok |-> FALSE]

AddMappings(c, ms) ==
  FoldLeft(LAMBDA progress, m : LET added == AddContiguousMapping(progress.c, m)
                                IN  [added EXCEPT !.ok = @ /\ progress.ok],
           [c |-> c, ok |-> TRUE], ms)

\* How an address is looked up for an access; {} is a fault.  Memory that is not part of
\* the table is no table.
TranslateVirtualAddress(entries, page_table_addr, va, writeable, executable) ==
  LET Below(table) == (table - page_table_addr) \div EntrySize
      Step(tables, level) ==
        {entries[i].address * kTranslationGranule :
           i \in {j \in {Below(t) + table_index_l(va, level) + 1 : t \in tables} :
                    j \in DOMAIN entries /\ Allows(entries[j], writeable, executable)}}
  IN  {page + (va % kTranslationGranule) :
         page \in FoldLeft(Step, {page_table_addr}, [n \in 1..kNumLevels |-> n - 1])}

-----------------------------------------------------------------------------
(* MemoryStateImage *)

RangeSize(r) == r.limit - r.start
OffsetOf(ranges, i) ==
  FoldLeft(LAMBDA sum, r : sum + RangeSize(r), 0, SubSeq(ranges, 1, i - 1))

\* Mapped memory one range after the other from data_offset on, then what is mapped
\* elsewhere.
LayoutPageTable(input, data_offset) ==
  LET ranges == input.memory.ranges
      own == [i \in DOMAIN ranges |->
                [start |-> ranges[i].start, num_bytes |-> RangeSize(ranges[i]),
                 perms |-> ranges[i].perms,
                 physical_addr |-> input.physical_address + data_offset + OffsetOf(ranges, i)]]
  IN  AddMappings(PageTableCreator(input.physical_address), own \o input.external)

MappedBytes(memory) ==
  FlattenSeq([i \in DOMAIN memory.ranges |->
                LET r == memory.ranges[i]
                IN  [n \in 1..RangeSize(r) |-> memory.bytes[r.start + n - 1]]])

\* Twice: the first table shows how large it is and so where the memory begins.
Build(input) ==
  LET measure == LayoutPageTable(input, 0)
      laid_out == LayoutPageTable(input, Len(measure.c.entries) * EntrySize)
  IN  [ok |-> measure.ok /\ laid_out.ok, input |-> input, entries |-> laid_out.c.entries,
       data |-> MappedBytes(input.memory)]

-----------------------------------------------------------------------------
(* The specification *)

NoImage == [ok |-> FALSE]

PageTableInit ==
  /\ creator \in {PageTableCreator(a) : a \in PageTableAddrs}
  /\ calls = <<>> /\ image = NoImage

AddMapping ==
  /\ Len(calls) < MaxMappings /\ image = NoImage
  /\ \E m \in Calls :
       LET added == AddContiguousMapping(creator, m)
       IN  creator' = added.c /\ calls' = Append(calls, [mapping |-> m, ok |-> added.ok])
  /\ UNCHANGED image

BuildImage ==
  /\ calls = <<>> /\ image = NoImage
  /\ \E input \in ImageInputs : image' = Build(input)
  /\ UNCHANGED <<creator, calls>>

PageTableNext == AddMapping \/ BuildImage

PageTableSpec == PageTableInit /\ [][PageTableNext]_ptvars

-----------------------------------------------------------------------------
(* Properties *)

\* What a mapping asks of its pages, and what it finds there that is not the same.
Wanted(m) ==
  [va \in {a \in m.start..(m.start + m.num_bytes - 1) : a % kTranslationGranule = 0} |->
     [address |-> m.physical_addr + va - m.start, writeable |-> "w" \in m.perms,
      executable |-> "x" \in m.perms]]
Blocked(t, m) == {va \in DOMAIN Wanted(m) \cap DOMAIN t : t[va] # Wanted(m)[va]}
Acceptable(m) ==
  \A value \in {m.start, m.physical_addr, m.num_bytes} : CheckAlignmentAndSize(value)
InSpace(m) == /\ m.start + m.num_bytes \in kTranslationGranule..AddressLimit
              /\ m.physical_addr + m.num_bytes \in kTranslationGranule..AddressLimit
Extended(t, m) ==
  IF Acceptable(m) /\ InSpace(m)
  THEN t @@ Restrict(Wanted(m), {va \in DOMAIN Wanted(m) : \A b \in Blocked(t, m) : va < b})
  ELSE t
Answer(t, m) == Acceptable(m) /\ InSpace(m) /\ Blocked(t, m) = {}

\* A table that leaves the address space has addresses cut off.
TableFits(entries, page_table_addr) == page_table_addr + Len(entries) * EntrySize <= AddressLimit

\* The table translates exactly what t says, for every kind of access.
Translates(entries, page_table_addr, t) ==
  \A va \in 0..(AddressLimit - 1), writeable, executable \in BOOLEAN :
    LET page == va - (va % kTranslationGranule)
    IN  TranslateVirtualAddress(entries, page_table_addr, va, writeable, executable) =
          {t[p].address + va - p :
             p \in {q \in {page} \cap DOMAIN t : /\ writeable => t[q].writeable
                                                 /\ executable => t[q].executable}}

TranslationOf(n) == FoldLeft(Extended, <<>>, [i \in 1..n |-> calls[i].mapping])

\* A mapping either takes effect or is refused at the first page that is taken, every
\* mapped address then leads to its place with its own permissions, whatever tables and
\* permissive descriptors it shares with others, and no other address leads anywhere.
\* In an image, the addresses of the memory state lead to its bytes.
TranslationIsRight ==
  /\ \A i \in DOMAIN calls : calls[i].ok = Answer(TranslationOf(i - 1), calls[i].mapping)
  /\ calls # <<>> /\ TableFits(creator.entries, creator.page_table_addr) =>
       Translates(creator.entries, creator.page_table_addr, TranslationOf(Len(calls)))
  /\ image.ok =>
       LET root == image.input.physical_address
           memory == image.input.memory
           Accesses(a, w, x) == TranslateVirtualAddress(image.entries, root, a, w, x)
           Byte(pa) == image.data[pa - root - Len(image.entries) * EntrySize + 1]
           outside == UNION {DOMAIN Wanted(m) : m \in Range(image.input.external)}
       IN  TableFits(image.entries, root) =>
             /\ \A r \in Range(memory.ranges), w, x \in BOOLEAN :
                  LET allowed == (w => "w" \in r.perms) /\ (x => "x" \in r.perms)
                  IN  \A a \in r.start..(r.limit - 1) :
                        {Byte(pa) : pa \in Accesses(a, w, x)} =
                          IF allowed THEN {memory.bytes[a]} ELSE {}
             /\ \A a \in 0..(AddressLimit - 1) :
                  Accesses(a, FALSE, FALSE) # {} =>
                    a \in DOMAIN memory.bytes \/ a - (a % kTranslationGranule) \in outside
=============================================================================

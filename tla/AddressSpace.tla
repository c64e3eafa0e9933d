---------------------------- MODULE AddressSpace ----------------------------
(***************************************************************************)
(* What MemoryState promises, address by address: the permissions of each  *)
(* address ({} when it is not mapped) and its byte when it is known.       *)
(***************************************************************************)
EXTENDS Integers

CONSTANTS Limit,      \* addresses are 0..(Limit - 1)
          Unknown,    \* the byte of an address nothing was written to
          Rwx,        \* the permissions that can be taken away, "mapped" is another
          Images,     \* snapshots: perms, negative and bytes of every address
          Patterns    \* bytes that are written

VARIABLES perms, byte

Addresses == 0..(Limit - 1)
Segments == {S \in SUBSET Addresses :
               S # {} /\ \A a, b \in S : a..b \subseteq S}

ImageInit == /\ perms = [k \in Addresses |-> {}]
             /\ byte = [k \in Addresses |-> Unknown]

\* f replaced by g on S.
Over(f, S, g) == [k \in Addresses |-> IF k \in S THEN g[k] ELSE f[k]]
All(v) == [k \in Addresses |-> v]

SetMapping(S, p) == perms' = Over(perms, S, All(p \cup {"mapped"})) /\ UNCHANGED byte
Unmap(S) == perms' = Over(perms, S, All({})) /\ byte' = Over(byte, S, All(Unknown))
Write(S, f) == byte' = Over(byte, S, f) /\ UNCHANGED perms
Forget(S) == byte' = Over(byte, S, All(Unknown)) /\ UNCHANGED perms

Outside(im) == {k \in Addresses : im.perms[k] = {}}
ClearPerms(im) ==
  perms' = Over(perms, Outside(im), [k \in Addresses |-> perms[k] \ Rwx]) /\ UNCHANGED byte

\* The starting state of a snapshot over whatever is there.
Start(im, zeroing) ==
  /\ perms' = [k \in Addresses |-> IF k \in Outside(im) THEN perms[k] \ im.negative[k]
                                   ELSE im.perms[k] \cup {"mapped"}]
  /\ LET New == {k \in Addresses \ Outside(im) : perms[k] = {}}
         zeroed == IF zeroing THEN Over(byte, New, All(0)) ELSE byte
     IN  byte' = Over(zeroed, {k \in Addresses : im.bytes[k] # Unknown}, im.bytes)

ImageNext ==
  \/ \E S \in Segments : \/ \E p \in SUBSET Rwx : SetMapping(S, p)
                         \/ \E f \in Patterns : Write(S, f)
                         \/ Unmap(S) \/ Forget(S)
  \/ \E im \in Images : \/ Unmap(Outside(im)) \/ ClearPerms(im)
                        \/ \E zeroing \in BOOLEAN : Start(im, zeroing)

Changes == perms' # perms \/ byte' # byte

ImageSpec == ImageInit /\ [][Changes => ImageNext]_<<perms, byte>>
=============================================================================

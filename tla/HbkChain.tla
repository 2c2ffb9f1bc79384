-------------------------------- MODULE HbkChain --------------------------------
(***************************************************************************)
(* read_pages of src/mcp_baf/helpindex/hbk.py: a help file is a container, *)
(* an entity table and a zip archive each kept in a chain of blocks, whose *)
(* HTML pages are unpacked one after the other. The bytes may be damaged   *)
(* in any way: every number read from them is any number that fits.        *)
(*                                                                         *)
(* Abstractions.                                                           *)
(*  - A chain meets every block at most once, so its numbers are chosen    *)
(*    when they are read; a block out of the file, or a number that is     *)
(*    none, is a ValueError at any of these reads.                         *)
(*  - What zipfile makes of the storage is any sequence of pages; sizes    *)
(*    are a few units instead of MiB.                                      *)
(***************************************************************************)
EXTENDS Naturals, FiniteSets

CONSTANTS
    Offsets,     \* addresses in the file
    Root,        \* the address of the entity table, 16
    End,         \* 0x7fffffff: the last block of a chain
    MaxStorage,  \* MAX_STORAGE_BYTES
    MaxHtml,     \* MAX_HTML_BYTES
    MaxNumber,   \* bound on the numbers in the file
    EntrySize,   \* length of a record of the entity table, 12
    MaxPages     \* bound on the pages of an archive

ASSUME HbkAssumption ==
    /\ Root \in Offsets /\ End \notin Offsets /\ IsFiniteSet(Offsets)
    /\ MaxStorage \in Nat /\ MaxHtml \in Nat /\ MaxNumber \in Nat /\ MaxPages \in Nat
    /\ EntrySize \in Nat \ {0}

VARIABLES
    hbk,       \* "stat", in a chain "infos" or "storage", "table", "pages",
               \* "done" or "rejected" by a ValueError
    total, remaining, offset, visited, \* the locals of _body
    taken,     \* bytes in its chunks
    reads,     \* blocks it has read
    entities,  \* records of the entity table not looked at yet
    unpacked,  \* bytes of all pages together
    yielded    \* pages handed over to the index

chain == <<total, remaining, offset, visited, taken, reads>>
hbkVars == <<hbk, chain, entities, unpacked, yielded>>

HbkInit ==
    /\ hbk = "stat"
    /\ total = 0 /\ remaining = 0 /\ offset = Root /\ visited = {} /\ taken = 0 /\ reads = 0
    /\ entities = 0 /\ unpacked = 0 /\ yielded = 0

--------------------------------------------------------------------------------
(* _body *)

StartBody(where, at0) ==
    /\ hbk' = where /\ offset' = at0
    /\ total' \in 0 .. MaxNumber /\ total' <= MaxStorage /\ remaining' = total'
    /\ visited' = {} /\ taken' = 0 /\ reads' = 0

AtMost(n, m) == IF n <= m THEN n ELSE m

\* Mutant: no set of visited offsets.
ReadBlockAgain ==
    /\ hbk \in {"infos", "storage"} /\ remaining > 0
    /\ reads' = reads + 1 /\ UNCHANGED visited
    /\ \E size0 \in 1 .. MaxNumber, following \in Offsets \cup {End} :
          /\ taken' = taken + AtMost(remaining, size0)
          /\ remaining' = remaining - AtMost(remaining, size0)
          /\ remaining' > 0 => following # End
          /\ offset' = following
    /\ UNCHANGED <<hbk, total, entities, unpacked, yielded>>

\* One turn of the loop that does not raise: a block not visited before, of a
\* size that is not 0, and not the last one while something is missing.
ReadBlock ==
    /\ hbk \in {"infos", "storage"} /\ remaining > 0
    /\ offset \notin visited
    /\ visited' = visited \cup {offset} /\ reads' = reads + 1
    /\ \E size0 \in 1 .. MaxNumber, following \in Offsets \cup {End} :
          /\ taken' = taken + AtMost(remaining, size0)
          /\ remaining' = remaining - AtMost(remaining, size0)
          /\ remaining' > 0 => following # End
          /\ offset' = following
    /\ UNCHANGED <<hbk, total, entities, unpacked, yielded>>

--------------------------------------------------------------------------------
(* read_pages *)

\* The size of the file is good, and the header of its entity table.
OpenFile ==
    /\ hbk = "stat" /\ StartBody("infos", Root)
    /\ UNCHANGED <<entities, unpacked, yielded>>

InfosRead ==
    /\ hbk = "infos" /\ remaining = 0
    /\ total > 0 /\ total % EntrySize = 0
    /\ hbk' = "table" /\ entities' = total \div EntrySize
    /\ UNCHANGED <<chain, unpacked, yielded>>

\* A record that is reserved, or names something else.
SkipEntity ==
    /\ hbk = "table" /\ entities > 0 /\ entities' = entities - 1
    /\ UNCHANGED <<hbk, chain, unpacked, yielded>>

FileStorage ==
    /\ hbk = "table" /\ entities > 0 /\ entities' = entities - 1
    /\ \E o \in Offsets : StartBody("storage", o)
    /\ UNCHANGED <<unpacked, yielded>>

OpenArchive ==
    /\ hbk = "storage" /\ remaining = 0
    /\ hbk' = "pages"
    /\ UNCHANGED <<chain, entities, unpacked, yielded>>

\* A page within both limits; no more than one byte above the first is unpacked.
Page ==
    /\ hbk = "pages" /\ yielded < MaxPages
    /\ \E n \in 0 .. MaxHtml :
          /\ unpacked + n <= MaxStorage
          /\ unpacked' = unpacked + n /\ yielded' = yielded + 1
    /\ UNCHANGED <<hbk, chain, entities>>

ArchiveEnds ==
    /\ hbk = "pages" /\ hbk' = "done"
    /\ UNCHANGED <<chain, entities, unpacked, yielded>>

\* Any of the reads raises: the pages yielded before remain.
Damaged ==
    /\ hbk \notin {"done", "rejected"} /\ hbk' = "rejected"
    /\ UNCHANGED <<chain, entities, unpacked, yielded>>

Reading ==
    \/ OpenFile \/ ReadBlock \/ InfosRead \/ SkipEntity \/ FileStorage
    \/ OpenArchive \/ Page \/ ArchiveEnds \/ Damaged

HbkSpec == HbkInit /\ [][Reading]_hbkVars

--------------------------------------------------------------------------------
(* Properties *)

HbkTypeOK ==
    /\ hbk \in {"stat", "infos", "storage", "table", "pages", "done", "rejected"}
    /\ total \in Nat /\ remaining \in Nat /\ taken \in Nat /\ reads \in Nat
    /\ offset \in Offsets \cup {End} /\ visited \in SUBSET Offsets
    /\ entities \in Nat /\ unpacked \in Nat /\ yielded \in Nat

\* However its blocks are linked, a chain is read to exactly the length its header
\* announced, within the limit of 512 MiB: nothing is doubled, nothing is missing.
BodyIsWhole ==
    /\ taken + remaining = total
    /\ total <= MaxStorage
    /\ hbk \in {"table", "pages", "done"} => remaining = 0

\* A damaged chain that runs in a circle ends after as many reads as the file has
\* blocks, and not after the 512 MiB its header may announce.
NoBlockTwice == reads <= Cardinality(Offsets)

\* The index never holds more of one file than the limit, and less than one page
\* beyond it is unpacked, whatever sizes the zip headers claim.
PagesWithinLimit == unpacked <= MaxStorage

\* A damaged container costs no more than a sound one: chains are read whole and
\* once, pages within the limit, in any combination of circles, gaps and lies.
ReadsAreBounded == BodyIsWhole /\ NoBlockTwice /\ PagesWithinLimit

================================================================================

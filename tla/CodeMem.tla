--------------------------------- MODULE CodeMem -------------------------------
(***************************************************************************)
(* Code memory, kernel/codemem.c: regions of flash pages behind handles,   *)
(* and a cache of one page in front of the flash.  Page 0 stands for the   *)
(* kernel's pages; flash_cache_addr 0 means that no page is cached yet.    *)
(* Sizes and offsets are in words of a fraction of a page.                 *)
(***************************************************************************)
EXTENDS Naturals, FiniteSets, Sequences, SequencesExt

CONSTANTS NPAGES,    \* flash_num_pages
          PAGE,      \* FLASHMEM_PAGE_SIZE, in words
          Entry,      \* Indices of codemem_handle_list.
          SALTS,     \* Values of codemem_salt before it wraps around.
          Word       \* What a word may be written with.

ASSUME CodeMemAssumption ==
  /\ {NPAGES, PAGE, SALTS} \subseteq Nat \ {0}
  /\ Entry \subseteq Nat
  /\ Word \subseteq Nat \ {0, 98, 99}

Erased == 0
Junk == 98           \* A cache page just allocated, not read from flash.
KernelWord == 99
NoHdr == [start |-> 0, size |-> 0, salt |-> 0, age |-> 0]
NoCache == [addr |-> 0, data |-> <<>>]
NoHandle == [slot |-> 0, salt |-> SALTS, age |-> 0]

VARIABLES flash,     \* flash[p][o]: word o of page p
          bitmap,    \* flash_alloc_bitmap: the pages in use
          hdrs,      \* codemem_handle_list
          salt,      \* codemem_salt
          fcache,     \* flash_cache_page and flash_cache_addr
          want,      \* want[s]: what was written through the handle in slot s
          old        \* A handle that was freed.

cmVars == <<flash, bitmap, hdrs, salt, fcache, want, old>>

Offset == 0..(PAGE - 1)
NewPage(w) == [o \in Offset |-> w]
Pages(size) == (size + PAGE - 1) \div PAGE

codemem_init ==
  /\ flash = [p \in 0..NPAGES |-> NewPage(IF p = 0 THEN KernelWord ELSE Erased)]
  /\ bitmap = {}
  /\ hdrs = [s \in Entry |-> NoHdr]
  /\ salt = 0
  /\ fcache = NoCache
  /\ want = [s \in Entry |-> <<>>]
  /\ old = NoHandle

HasCache(m) == m.cache # NoCache
codemem_cache_alloc(m) ==
  IF HasCache(m) THEN m ELSE [m EXCEPT !.cache = [addr |-> 0, data |-> NewPage(Junk)]]

\* The page that was cached before goes to flash.
StoreCached(m) ==
  IF m.cache.addr # 0 THEN [m EXCEPT !.flash[m.cache.addr] = m.cache.data] ELSE m

\* Mutant: the page that was cached before is lost.
LoadCache_drop(m, p) ==
  IF m.cache.addr = p THEN m ELSE [m EXCEPT !.cache = [addr |-> p, data |-> m.flash[p]]]

LoadCache(m, p) ==
  IF m.cache.addr = p THEN m
  ELSE LET n == StoreCached(m) IN [n EXCEPT !.cache = [addr |-> p, data |-> n.flash[p]]]

codemem_cache_write(m, p, offs, w) ==
  [LoadCache(m, p) EXCEPT !.cache.data = [o \in Offset |-> IF o \in offs THEN w ELSE @[o]]]

\* A read that stays in one page.
codemem_cache_read(p, o) ==
  IF fcache # NoCache /\ fcache.addr = p THEN fcache.data[o] ELSE flash[p][o]

codemem_cache_flush(m) ==
  IF HasCache(m) THEN [m EXCEPT !.flash[m.cache.addr] = m.cache.data, !.cache = NoCache]
  ELSE m

\* check_codemem_t
check_codemem_t(h) == hdrs[h.slot] # NoHdr /\ hdrs[h.slot].salt = h.salt

Mem == [flash |-> flash, cache |-> fcache]
SetMem(m) == flash' = m.flash /\ fcache' = m.cache

\* flash_alloc looks for the first run of n free pages.
Fits(b, p, n) == p + n - 1 <= NPAGES /\ p..(p + n - 1) \cap b = {}

codemem_salt == (salt + 1) % SALTS

\* The age of a handle counts the allocations since its own, up to SALTS.
Older(h, none) == IF h = none \/ h.age = SALTS THEN h ELSE [h EXCEPT !.age = @ + 1]

\* ker_codemem_alloc; without a slot or a run of pages the answer is
\* CODEMEM_INVALID, but the cache page is there.
ker_codemem_alloc(size) ==
  LET slots == {s \in Entry : hdrs[s] = NoHdr}
      at == {p \in 1..NPAGES : Fits(bitmap, p, Pages(size))}
  IN  /\ slots # {}
      /\ SetMem(codemem_cache_alloc(Mem))
      /\ IF at = {} THEN UNCHANGED <<bitmap, hdrs, salt, want, old>>
         ELSE /\ bitmap' = bitmap \cup Min(at)..(Min(at) + Pages(size) - 1)
              /\ salt' = codemem_salt
              /\ hdrs' = [s \in Entry |->
                   IF s = Min(slots)
                   THEN [start |-> Min(at), size |-> size, salt |-> salt', age |-> 0]
                   ELSE Older(hdrs[s], NoHdr)]
              /\ want' = [want EXCEPT ![Min(slots)] = [i \in 0..(size - 1) |-> Erased]]
              /\ old' = IF old.age = SALTS - 1 THEN NoHandle ELSE Older(old, NoHandle)

\* The pages that the words off..off+n-1 of a region at page p are in, and the
\* offsets in page q.
Touched(p, off, n) == (p + off \div PAGE)..(p + (off + n - 1) \div PAGE)
Within(p, off, n, q) ==
  {o \in Offset : (q - p) * PAGE + o \in off..(off + n - 1)}

\* ker_codemem_direct_write: page by page through the cache.
Spread(m, p, off, n, w) ==
  FoldLeft(LAMBDA r, q : codemem_cache_write(r, q, Within(p, off, n, q), w), m,
           SetToSortSeq(Touched(p, off, n), <))

\* ker_codemem_write of n words within the region.
ker_codemem_write(s, off, n, w) ==
  /\ hdrs[s] # NoHdr
  /\ off + n <= hdrs[s].size
  /\ SetMem(Spread(codemem_cache_alloc(Mem), hdrs[s].start, off, n, w))
  /\ want' = [want EXCEPT ![s] = [i \in DOMAIN @ |-> IF i \in off..(off + n - 1) THEN w ELSE @[i]]]
  /\ UNCHANGED <<bitmap, hdrs, salt, old>>

\* The pages that flash_free gives back.
flash_free(p, n) == p..(p + n - 1)

\* ker_codemem_free: the pages are erased, in the flash and not in the cache.
ker_codemem_free(s) ==
  LET h == hdrs[s]
      freed == flash_free(h.start, Pages(h.size))
  IN  /\ h # NoHdr
      /\ bitmap' = bitmap \ freed
      /\ flash' = [p \in 0..NPAGES |-> IF p \in freed THEN NewPage(Erased) ELSE flash[p]]
      /\ hdrs' = [hdrs EXCEPT ![s] = NoHdr]
      /\ want' = [want EXCEPT ![s] = <<>>]
      /\ \/ h.age < SALTS /\ old' = [slot |-> s, salt |-> h.salt, age |-> h.age]
         \/ UNCHANGED old
      /\ UNCHANGED <<salt, fcache>>

\* ker_codemem_flush, by a caller that wrote since the page was cached.
ker_codemem_flush ==
  /\ fcache.addr # 0
  /\ SetMem(codemem_cache_flush(Mem))
  /\ UNCHANGED <<bitmap, hdrs, salt, want, old>>

--------------------------------------------------------------------------------
cmTypeOK ==
  /\ flash \in [0..NPAGES -> [Offset -> Word \cup {Erased, Junk, KernelWord}]]
  /\ bitmap \subseteq 1..NPAGES
  /\ \A s \in Entry : hdrs[s] # NoHdr => hdrs[s].start \in 1..NPAGES
  /\ salt \in 0..(SALTS - 1)
  /\ old.age \in 0..(SALTS - 1)
  /\ fcache.addr \in 0..NPAGES

\* What was written through a handle is what is read through it, whichever pages
\* went through the cache in between, and whether or not it was flushed.
CodeReadBack ==
  \A s \in Entry : \A i \in DOMAIN want[s] :
    want[s][i] # Erased =>
      codemem_cache_read(hdrs[s].start + i \div PAGE, i % PAGE) = want[s][i]

\* The bitmap has exactly the pages of the regions, and no page is in two of them.
CodeRegions ==
  LET Region(s) == IF hdrs[s] = NoHdr THEN {}
                   ELSE hdrs[s].start..(hdrs[s].start + Pages(hdrs[s].size) - 1)
  IN  /\ bitmap = UNION {Region(s) : s \in Entry}
      /\ \A s, t \in Entry : s # t => Region(s) \cap Region(t) = {}

\* The kernel's own page is never written back from a cache that holds no page.
KernelIntact == flash[0] = NewPage(KernelWord)

\* The salt: a handle that was freed is refused, whoever has the slot now, until
\* as many allocations as there are salts have followed its own.
StaleRefused == old # NoHandle => ~check_codemem_t(old)

\* What was written to code memory is read back, regions do not overlap and are those
\* of the bitmap, the kernel's page is never touched, and a handle of a region that
\* was freed is refused: whichever page is cached and whenever it is flushed.
CodeSound == CodeReadBack /\ CodeRegions /\ KernelIntact /\ StaleRefused
================================================================================

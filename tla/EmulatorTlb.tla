----------------------------- MODULE EmulatorTlb ----------------------------
(***************************************************************************)
(* The emulator's software TLB and the tracer's hooks in it.               *)
(*                                                                         *)
(* Translated code tests the TLB inline (tcg_out_tlb_load) and calls a     *)
(* helper only when the test fails, so that an access which passes it is   *)
(* not reported to the tracer and changes no state here: see Fast.  The    *)
(* helpers (softmmu_template.h) report the access, fill the TLB from the   *)
(* page table and try again ("redo").  Code is found through a jump cache  *)
(* of translated blocks, or by a look-up that reads the TLB.               *)
(*                                                                         *)
(* The TLB works on the target's pages of 1 KB (TARGET_PAGE_BITS is 10),   *)
(* the guest's page tables and the tracer on pages of 4 KB (MmuPage).      *)
(*                                                                         *)
(* The guest obeys the architecture: it does not use a page whose          *)
(* descriptors it changed before it invalidated the page, nor user pages   *)
(* between the two writes that switch the address space.                   *)
(***************************************************************************)
EXTENDS PageWalk, Sequences

CONSTANTS
    TargetPage, \* pages of 1 KB: TARGET_PAGE_MASK
    SubPages,  \* how many of them make a page of 4 KB: 4
    Space,     \* address spaces: a first table, also used as ASID
    TlbSize,   \* CPU_TLB_SIZE
    Tables,    \* Tables[a]: descriptors the guest may write at address a
    Boot,      \* the page tables a guest may begin with
    Rights,    \* values of the domain access register c3
    Mmio,      \* frames that are not RAM
    Guests     \* what guests do: see Guest

Operation == {"data", "kernel", "ldrt", "unaligned", "exec", "remap", "switch",
              "domain", "mmu", "mva"}

\* The operations a guest uses, the pages it touches, the descriptors it
\* rewrites, its spaces and the first of them.
Guest == [ops : SUBSET Operation, pages : SUBSET TargetPage,
          writes : SUBSET DOMAIN Tables, spaces : SUBSET Space, boot : Space]

\* The page of 4 KB that a page of 1 KB is a part of.  Neither walk translates
\* address bits 10 and 11, so that one frame number stands for all its parts.
MmuPage(page) == page \div SubPages

ASSUME TargetPageAssumption ==
    /\ SubPages \in Nat \ {0}
    /\ TargetPage \subseteq Nat
    /\ \A page \in TargetPage : MmuPage(page) \in Page

ASSUME EmulatorAssumption ==
    /\ TlbSize \in Nat /\ TlbSize > 1
    /\ Guests \subseteq Guest
    /\ \A m \in Boot :
        DOMAIN m = DOMAIN Tables /\ \A a \in DOMAIN m : m[a] \in Tables[a]
    /\ Base1 \notin Space

\* Whatever a walk reads is in the tables, and a second-level descriptor holds a
\* frame.
ASSUME TablesAssumption ==
    /\ \A a \in DOMAIN Tables : \A d \in Tables[a] : IsDescriptor(d)
    /\ \A page \in Page, s \in Space :
        LET a == get_level1_table_address([base0 |-> s], page) IN
        /\ a \in DOMAIN Tables
        /\ \A d \in Tables[a] : d.type = 1 =>
            LET b == get_level2_table_address(d, page) IN
            b \in DOMAIN Tables /\ \A e \in Tables[b] : e.base \in Nat

VARIABLES
    mem,        \* the guest's page tables
    cpu,        \* c2_base0, c3 and the M bit of c1_sys
    asid,       \* c13_context & 0xFF
    user,       \* the CPU is in user mode
    tlb,        \* tlb_table[mmu_idx][index]
    jmp_cache,  \* translated blocks found without a look-up
    pc,         \* the access in progress, if any
    started,    \* the tracer is running
    reported,   \* <<page, asid>> (4 KB) the tracer has seen since it started and
                \* was not told to invalidate since
    stale,      \* guest: <<page, space>> (4 KB) changed and not yet invalidated
    changed,    \* history: <<page, space>> (1 KB), the same, if an invalidation
                \* by address is for that 1 KB alone
    forgotten,  \* history: <<page, asid>> (1 KB), the rest of a page that the
                \* tracer has invalidated by address
    guest       \* guest: what it does

regs == <<mem, cpu, asid, user>>
soft == <<tlb, jmp_cache>>
hist == <<stale, changed, forgotten>>
vars == <<mem, cpu, asid, user, tlb, jmp_cache, pc, started, reported, stale,
          changed, forgotten, guest>>

MMU_USER_IDX == 1
NoEntry == [page |-> -1, frame |-> 0, prot |-> {}, silent |-> FALSE]
Idle    == [at |-> "run"]

cpu_mmu_index == IF user THEN MMU_USER_IDX ELSE 0

Init ==
    /\ mem \in Boot
    /\ guest \in Guests
    /\ \E r \in Rights : cpu = [base0 |-> guest.boot, c3 |-> r, mmu |-> TRUE]
    /\ asid = guest.boot
    /\ user = TRUE
    /\ tlb = [i \in 0..1 |-> [x \in 0..TlbSize - 1 |-> NoEntry]]
    /\ jmp_cache = {}
    /\ pc = Idle
    /\ started = FALSE
    /\ reported = {}
    /\ stale = {}
    /\ changed = {}
    /\ forgotten = {}

-----------------------------------------------------------------------------
(* The tables. *)

EntryOf(idx, page) == tlb[idx][page % TlbSize]

\* Mutant: the flags in the low bits are compared too.
Match_NoMask(idx, page, access) ==
    /\ EntryOf(idx, page).page = page
    /\ access \in EntryOf(idx, page).prot
    /\ EntryOf(idx, page).frame \notin Mmio

\* The comparison of the helpers.  An entry has one page, in whichever of
\* addr_read, addr_write and addr_code its protection allows.
Match(idx, page, access) ==
    EntryOf(idx, page).page = page /\ access \in EntryOf(idx, page).prot

\* The comparison of translated code; I/O memory has low bits set and fails it.
Fast(idx, page, access) ==
    Match(idx, page, access) /\ EntryOf(idx, page).frame \notin Mmio

tlb_flush ==
    /\ tlb' = [i \in 0..1 |-> [x \in 0..TlbSize - 1 |-> NoEntry]]
    /\ jmp_cache' = {}

\* Mutant: blocks that begin on the page before are kept.
tlb_flush_jmp_cache_OnePage(page) ==
    jmp_cache' = {tb \in jmp_cache : tb.pages[1] # page}

\* Blocks that may overlap the page: they begin on it or on the page before.
tlb_flush_jmp_cache(page) ==
    jmp_cache' = {tb \in jmp_cache : tb.pages[1] \notin {page - 1, page}}

\* One page of 1 KB, in both tables.
tlb_flush_page(page) ==
    /\ tlb' = [i \in 0..1 |-> [x \in 0..TlbSize - 1 |->
                IF x = page % TlbSize /\ tlb[i][x].page = page THEN NoEntry
                                                                ELSE tlb[i][x]]]
    /\ tlb_flush_jmp_cache(page)

\* Mutant: the index is taken from the next page.
tlb_set_page_NextIndex(idx, page, walk, silent) ==
    tlb' = [tlb EXCEPT ![idx][(page + 1) % TlbSize] =
              [page |-> page, frame |-> walk.frame, prot |-> walk.prot,
               silent |-> silent]]

\* A readable page may also be executed.  History: was the fill reported?
tlb_set_page(idx, page, walk, silent) ==
    tlb' = [tlb EXCEPT ![idx][page % TlbSize] =
              [page |-> page, frame |-> walk.frame,
               prot |-> IF "read" \in walk.prot THEN walk.prot \cup {"exec"}
                                                ELSE walk.prot,
               silent |-> silent]]

-----------------------------------------------------------------------------
(* Accesses.  pc.todo lists the pages the helper still has to find in the   *)
(* TLB: [page, report, stores], where "report" says whether a hook is passed *)
(* always, on a miss or never, and "stores" whether bytes are stored.        *)

tlbtrace_refmem_qemu(page) ==
    reported' = IF started /\ user THEN reported \cup {<<MmuPage(page), asid>>}
                                   ELSE reported

\* What the guest may touch.
Usable(page) ==
    \/ ~ cpu.mmu
    \/ /\ MmuPage(page) \in High \/ cpu.base0 = asid
       /\ <<MmuPage(page), asid>> \notin stale

Step(page, report, stores) == [page |-> page, report |-> report, stores |-> stores]

Begin(idx, access, todo, tb) ==
    /\ pc = Idle
    /\ \A i \in DOMAIN todo : todo[i].page \in guest.pages /\ Usable(todo[i].page)
    /\ pc' = [at |-> "redo", idx |-> idx, access |-> access, todo |-> todo,
              stored |-> FALSE, tb |-> tb]
    /\ UNCHANGED <<regs, soft, started, reported, hist, guest>>

\* User code uses the user table, and so do LDRT and STRT of the kernel.
MayAccess(idx) ==
    \/ user /\ idx = MMU_USER_IDX /\ "data" \in guest.ops
    \/ ~ user /\ idx = 0 /\ "kernel" \in guest.ops
    \/ ~ user /\ idx = MMU_USER_IDX /\ "ldrt" \in guest.ops

\* __ld and __st, called when the inline test fails.
AlignedAccess(idx, page, access) ==
    /\ MayAccess(idx)
    /\ ~ Fast(idx, page, access)
    /\ Begin(idx, access, <<Step(page, "always", access = "write")>>, <<>>)

\* Mutant: the bytes of a store from the first to the last.
CrossingSteps_Ascending(page, access) ==
    IF access = "write"
    THEN <<Step(page, "always", TRUE), Step(page + 1, "never", TRUE)>>
    ELSE <<Step(page, "always", FALSE), Step(page + 1, "never", FALSE)>>

\* slow_ld loads from both pages in turn; slow_st stores the bytes from the last
\* to the first.  Neither has a hook.
CrossingSteps(page, access) ==
    IF access = "write"
    THEN <<Step(page, "always", FALSE), Step(page + 1, "never", TRUE),
           Step(page, "never", TRUE)>>
    ELSE <<Step(page, "always", FALSE), Step(page + 1, "never", FALSE)>>

\* An unaligned address always fails the inline test.
CrossingAccess(idx, page, access) ==
    /\ "unaligned" \in guest.ops
    /\ MayAccess(idx)
    /\ Begin(idx, access, CrossingSteps(page, access), <<>>)

\* tb_find_fast misses and tb_find_slow looks the block up.  If the block exists,
\* get_phys_addr_code calls ldub_code on a TLB miss only; otherwise it is
\* translated, and ldl_code reports each of its pages.  The guest runs code
\* from RAM.
FindBlock(pages, exists) ==
    /\ "exec" \in guest.ops /\ (user \/ "kernel" \in guest.ops)
    /\ ~ \E tb \in jmp_cache : tb.pages = pages /\ tb.user = user
    /\ \A i \in DOMAIN pages :
        LET w == get_phys_addr(cpu, mem, MmuPage(pages[i]), "exec", user)
        IN  w.ok => w.frame \notin Mmio
    /\ Begin(cpu_mmu_index, "exec",
             [i \in DOMAIN pages |->
                Step(pages[i], IF exists THEN "miss" ELSE "always", FALSE)],
             pages)

\* A block in the jump cache runs; ARM code reports its pages (gen_trace_pc),
\* Thumb code does not and changes nothing.
RunArmBlock ==
    /\ pc = Idle
    /\ \E tb \in jmp_cache : \E i \in DOMAIN tb.pages :
        /\ tb.user = user
        /\ \A j \in DOMAIN tb.pages : Usable(tb.pages[j])
        /\ tlbtrace_refmem_qemu(tb.pages[i])
    /\ UNCHANGED <<regs, soft, pc, started, hist, guest>>

Redo == pc # Idle
Todo == Head(pc.todo)
Walk == get_phys_addr(cpu, mem, MmuPage(Todo.page), pc.access,
                      pc.idx = MMU_USER_IDX)

\* The block is entered in the jump cache.  History: none of its pages may have
\* been reported, if each was in the TLB.
CacheBlock ==
    jmp_cache' = jmp_cache \cup
        {[pages  |-> pc.tb, user |-> user,
          frames |-> [i \in DOMAIN pc.tb |-> EntryOf(pc.idx, pc.tb[i]).frame],
          silent |-> \E i \in DOMAIN pc.tb :
                        Todo.report = "miss" /\ EntryOf(pc.idx, pc.tb[i]).silent]}

\* The page is in the TLB: go on with the next one, or finish.
Found ==
    /\ Redo
    /\ Match(pc.idx, Todo.page, pc.access)
    /\ IF Todo.report = "always" THEN tlbtrace_refmem_qemu(Todo.page)
                                 ELSE UNCHANGED reported
    /\ IF Len(pc.todo) > 1
       THEN /\ pc' = [pc EXCEPT !.todo = Tail(@), !.stored = @ \/ Todo.stores]
            /\ UNCHANGED jmp_cache
       ELSE /\ pc' = Idle
            /\ IF pc.tb # <<>> THEN CacheBlock ELSE UNCHANGED jmp_cache
    /\ UNCHANGED <<regs, tlb, started, hist, guest>>

\* The hook comes before the fill.
Missing ==
    /\ Redo
    /\ ~ Match(pc.idx, Todo.page, pc.access)
    /\ IF Todo.report # "never" THEN tlbtrace_refmem_qemu(Todo.page)
                                ELSE UNCHANGED reported

\* tlb_fill maps the page, and the comparison is done again.
Fills ==
    /\ Missing
    /\ Walk.ok
    /\ tlb_set_page(pc.idx, Todo.page, Walk,
                    /\ started /\ pc.idx = MMU_USER_IDX
                    /\ Todo.report = "never" \/ ~ user)
    /\ UNCHANGED <<regs, jmp_cache, pc, started, hist, guest>>

\* tlb_fill raises the abort, which enters privileged mode.
Aborts ==
    /\ Missing
    /\ ~ Walk.ok
    /\ user' = FALSE
    /\ pc' = Idle
    /\ UNCHANGED <<mem, cpu, asid, soft, started, hist, guest>>

AccessStep == Found \/ Fills \/ Aborts

-----------------------------------------------------------------------------
(* The guest's kernel, and the key that toggles the tracer. *)

Kernel(op) == pc = Idle /\ ~ user /\ op \in guest.ops

SwitchMode ==
    /\ pc = Idle
    /\ ~ user => cpu.mmu /\ \A page \in guest.pages : Usable(page)
    /\ user' = ~ user
    /\ UNCHANGED <<mem, cpu, asid, soft, pc, started, reported, hist, guest>>

\* Some translation of the page that the TLB of a real CPU could hold is not
\* what a walk finds once m has become m2.
Outdated(m, m2, s, page) ==
    \E r \in Rights, k \in Access, u \in BOOLEAN :
        LET c == [base0 |-> s, c3 |-> r, mmu |-> TRUE]
            w == get_phys_addr(c, m, page, k, u)
        IN  w.ok /\ get_phys_addr(c, m2, page, k, u) # w

WriteDescriptor(a, desc) ==
    /\ Kernel("remap")
    /\ mem' = [mem EXCEPT ![a] = desc]
    /\ stale' = stale \cup
        {ps \in {MmuPage(page) : page \in guest.pages} \X Space :
            Outdated(mem, mem', ps[2], ps[1])}
    /\ changed' = changed \cup
        {ps \in guest.pages \X Space : Outdated(mem, mem', ps[2], MmuPage(ps[1]))}
    /\ UNCHANGED <<cpu, asid, user, soft, pc, started, reported, forgotten, guest>>

\* CP15 c8, operation 0.
InvalidateAll ==
    /\ Kernel("remap")
    /\ tlb_flush
    /\ reported' = {} /\ forgotten' = {}
    /\ stale' = {} /\ changed' = {}
    /\ UNCHANGED <<regs, pc, started, guest>>

Parts(page) == {p \in guest.pages : MmuPage(p) = MmuPage(page)}

\* Operation 1: the entry of one address and ASID.  The emulator flushes the
\* 1 KB the address is in, whatever the ASID; the tracer, and the CPU the guest
\* was written for, drop the 4 KB.
InvalidateEntry(page, s) ==
    /\ Kernel("remap")
    /\ page \in guest.pages /\ s \in guest.spaces
    /\ tlb_flush_page(page)
    /\ reported' = reported \ {<<MmuPage(page), s>>}
    /\ stale' = stale \ {<<MmuPage(page), s>>}
    /\ changed' = changed \ {<<page, s>>}
    /\ forgotten' = (forgotten \cup (IF <<MmuPage(page), s>> \in reported
                                    THEN Parts(page) \X {s} ELSE {})) \ {<<page, s>>}
    /\ UNCHANGED <<regs, pc, started, guest>>

\* Operation 2: one ASID.  The pages of the second table are global.
InvalidateAsid(s) ==
    /\ Kernel("remap")
    /\ s \in guest.spaces
    /\ tlb_flush
    /\ reported' = {ps \in reported : ps[2] # s}
    /\ stale' = {ps \in stale : ps[2] # s \/ ps[1] \in High}
    /\ changed' = {ps \in changed : ps[2] # s \/ MmuPage(ps[1]) \in High}
    /\ forgotten' = {ps \in forgotten : ps[2] # s}
    /\ UNCHANGED <<regs, pc, started, guest>>

\* Operation 3: one page of all ASIDs.  The tracer is not told.
InvalidateMva(page) ==
    /\ Kernel("mva")
    /\ tlb_flush
    /\ stale' = {ps \in stale : ps[1] # MmuPage(page)}
    /\ changed' = {ps \in changed : ps[1] \notin Parts(page)}
    /\ UNCHANGED <<regs, pc, started, reported, forgotten, guest>>

\* CP15 c2, the first table base; it does not flush.
SetBase(s) ==
    /\ Kernel("switch")
    /\ cpu' = [cpu EXCEPT !.base0 = s]
    /\ UNCHANGED <<mem, asid, user, soft, pc, started, reported, hist, guest>>

\* Mutant: CP15 c13 does not flush.
SetContext_NoFlush(s) ==
    /\ Kernel("switch")
    /\ asid' = s
    /\ UNCHANGED <<mem, cpu, user, soft, pc, started, reported, hist, guest>>

\* CP15 c13.
SetContext(s) ==
    /\ Kernel("switch")
    /\ asid' = s
    /\ IF asid # s THEN tlb_flush ELSE UNCHANGED soft
    /\ UNCHANGED <<mem, cpu, user, pc, started, reported, hist, guest>>

\* CP15 c3.
SetRights(r) ==
    /\ Kernel("domain")
    /\ cpu' = [cpu EXCEPT !.c3 = r]
    /\ tlb_flush
    /\ UNCHANGED <<mem, asid, user, pc, started, reported, hist, guest>>

\* CP15 c1.
SetMmu ==
    /\ Kernel("mmu")
    /\ cpu' = [cpu EXCEPT !.mmu = ~ @]
    /\ tlb_flush
    /\ UNCHANGED <<mem, asid, user, pc, started, reported, hist, guest>>

\* tlbtrace_toggle, between two blocks: start and stop both flush.
F10 ==
    /\ pc = Idle
    /\ started' = ~ started
    /\ tlb_flush
    /\ reported' = {} /\ forgotten' = {}
    /\ UNCHANGED <<regs, pc, stale, changed, guest>>

Next ==
    \/ AccessStep \/ RunArmBlock \/ SwitchMode \/ InvalidateAll \/ SetMmu \/ F10
    \/ \E page \in TargetPage :
        \/ \E idx \in 0..1, access \in {"read", "write"} :
            AlignedAccess(idx, page, access) \/ CrossingAccess(idx, page, access)
        \/ \E exists \in BOOLEAN :
            \/ FindBlock(<<page>>, exists)
            \/ page + 1 \in TargetPage /\ FindBlock(<<page, page + 1>>, exists)
        \/ InvalidateMva(page)
        \/ \E s \in Space : InvalidateEntry(page, s)
    \/ \E s \in Space : InvalidateAsid(s) \/ SetBase(s) \/ SetContext(s)
    \/ \E r \in Rights : SetRights(r)
    \/ \E a \in guest.writes : \E desc \in Tables[a] \ {mem[a]} :
        WriteDescriptor(a, desc)

\* The emulator thread does not stop in the middle of an access.
Spec == Init /\ [][Next]_vars /\ WF_vars(AccessStep)

-----------------------------------------------------------------------------
(* Properties. *)

Entries(idx) == {e \in {tlb[idx][x] : x \in 0..TlbSize - 1} : e # NoEntry}
Blocks(mode) == {tb \in jmp_cache : tb.user = mode}

\* Type invariant of the software TLB.
EmuTypeOK ==
    /\ \A a \in DOMAIN Tables : mem[a] \in Tables[a]
    /\ cpu \in [base0 : Space, c3 : Rights, mmu : BOOLEAN]
    /\ asid \in Space
    /\ {user, started} \subseteq BOOLEAN
    /\ \A idx \in 0..1, x \in 0..TlbSize - 1 :
        tlb[idx][x] = NoEntry \/
            /\ tlb[idx][x].page \in TargetPage
            /\ tlb[idx][x].page % TlbSize = x
            /\ tlb[idx][x].prot \in (SUBSET Access) \ {{}}
    /\ reported \subseteq Page \X Space
    /\ stale \subseteq Page \X Space
    /\ changed \cup forgotten \subseteq TargetPage \X Space
    /\ Redo => pc.todo # <<>> /\ pc.access \in Access

\* An entry has the frame and the permissions that a walk would find now.
EntryCurrent(idx, e) ==
    \A k \in {"read", "write"} :
        LET w == get_phys_addr(cpu, mem, MmuPage(e.page), k, idx = MMU_USER_IDX)
        IN  /\ k \in e.prot <=> w.ok
            /\ w.ok => w.frame = e.frame

\* What the guest may use and, if it changed, invalidated at this very 1 KB.
Settled(page) ==
    \/ ~ cpu.mmu
    \/ /\ MmuPage(page) \in High \/ cpu.base0 = asid
       /\ <<page, asid>> \notin changed

\* Nothing the emulator can use without a walk is out of date, once the guest has
\* invalidated what it changed 1 KB by 1 KB or with more than an entry at a time:
\* an entry is what a walk would find now, and a cached block has the frames its
\* code was translated from.  It takes the flushes of c1, c3, c8 and c13, in both
\* tables and in the jump cache.
TranslationsCurrent ==
    /\ \A idx \in 0..1 : \A e \in Entries(idx) :
        Settled(e.page) => EntryCurrent(idx, e)
    /\ \A tb \in jmp_cache : \A i \in DOMAIN tb.pages :
        Settled(tb.pages[i]) =>
            LET w == get_phys_addr(cpu, mem, MmuPage(tb.pages[i]), "read", tb.user)
            IN  w.ok /\ w.frame = tb.frames[i]

\* helper.c, c8: "Invalidate single TLB entry."  A guest that invalidates the
\* entry of each page of 4 KB it changed finds no old translation of it.
InvalidationReaches ==
    \A idx \in 0..1 : \A e \in Entries(idx) : Usable(e.page) => EntryCurrent(idx, e)

\* The tracer was told of the page, or has lost it with another part of its 4 KB.
Told(page) ==
    <<MmuPage(page), asid>> \in reported \/ <<page, asid>> \in forgotten

\* What user code can reach without passing a hook was reported, under the
\* current ASID, after the tracer started and after the last invalidation the
\* tracer was told of: only repeated references are missing from the trace.
\* The exceptions are pages filled by LDRT and STRT of the kernel or as the
\* second page of an access ("silent"), and the rest of a page of 4 KB of which
\* the guest invalidated one entry ("forgotten").
UnhookedIsReported ==
    started =>
        /\ \A e \in Entries(MMU_USER_IDX) : ~ e.silent => Told(e.page)
        /\ \A tb \in Blocks(TRUE) : \A i \in DOMAIN tb.pages :
            ~ tb.silent => Told(tb.pages[i])

\* For a page the emulator has a current translation of, the tracer's walk does
\* not say "fault".  It ends at a section (1, and pa is 0) or at a page (3), and
\* then with the frame that is used, up to the low bits of the number if the page
\* is large.  (tlb_trace.h says that an odd result is a page fault and that pa is
\* the output address, and a comment in tlb_trace.c that 2 is a completed walk.)
TraceMatchesTranslation ==
    cpu.mmu => \A idx \in 0..1 : \A e \in Entries(idx) :
        Settled(e.page) =>
            LET t == get_ptes(cpu, mem, MmuPage(e.page)) IN
            \/ t.ret = 1 /\ mem[t.l1].type = 2
            \/ t.ret = 3 /\ IF mem[t.l2].type = 1
                            THEN t.gpa \div LargePages = e.frame \div LargePages
                            ELSE t.gpa = e.frame

\* A store across two pages is not done in part: once a byte is stored, the
\* TLB has all it still needs, and no abort follows ("relies on the fact that
\* tlb_fill() does not remove the previous page from the TLB cache").
NoPartialStore ==
    Redo /\ pc.stored =>
        \A i \in DOMAIN pc.todo : Match(pc.idx, pc.todo[i].page, pc.access)

\* The "goto redo" of the helpers ends: what tlb_fill maps for an access allows
\* the access, whatever the permissions.
AccessEnds == Redo ~> ~ Redo
=============================================================================

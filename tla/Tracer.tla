------------------------------- MODULE Tracer -------------------------------
(***************************************************************************)
(* The TLB Tracer: the API of tlb_trace.h as its two kinds of client use   *)
(* it, over the main TLB (MainTlb) and the trace file (TraceBuffer).       *)
(*                                                                         *)
(* The emulator calls tlbtrace_init once and tlbtrace_toggle on F10, and   *)
(* its hooks report references and invalidations of the guest at any time. *)
(* That one call passes no arguments (vl-android.c): what tlbtrace_init    *)
(* takes for the size and the set is undefined, see EmulatorInit.          *)
(* A library client follows the order tlb_trace.h gives: init, start,      *)
(* refmem for each access; it does not start a running tracer, stop a      *)
(* stopped one or report an access to a stopped one.                       *)
(***************************************************************************)
EXTENDS MainTlb, TraceBuffer

CONSTANTS
    Minutes,      \* the minutes in which the clock is read, 0..n
    NameOf(_, _), \* NameOf(minute, config): the file name of tlbtrace_start
    Walks         \* results <<ret, l1, l2, gpa>> of the page walk callback

ASSUME MinutesAssumption == Minutes \subseteq Nat /\ 0 \in Minutes
ASSUME NameAssumption ==
    \A m \in Minutes, c \in Configs \cup {NoConfig} : NameOf(m, c) \in File
ASSUME WalksAssumption == Walks \subseteq (0..15) \X Nat \X Nat \X Nat

VARIABLES
    client,     \* who calls: "boot" (the emulator before its init call),
                \* "emulator" or "library"
    started,
    minute,     \* time(NULL), to the minute
    usermode,   \* guest: uncached_cpsr says user mode
    context     \* guest: c13_context & 0xFF

guest == <<usermode, context>>
tvars == <<vars, bufvars, client, started, minute, usermode, context>>

TracerInit ==
    /\ Init
    /\ BufInit
    /\ client \in {"boot", "library"}
    /\ started = FALSE
    /\ minute = 0
    /\ usermode = FALSE
    /\ context \in Asid

Emulator == client = "emulator"
Library  == client = "library"

-----------------------------------------------------------------------------
(* The functions of tlb_trace.c, whole. *)

Initialize(c) ==
    /\ tlbtrace_init(c)
    /\ started' = FALSE
    /\ UNCHANGED bufvars

\* Mutant: "started" survives the table.
Destroy_StaysStarted ==
    /\ tlbtrace_destroy
    /\ UNCHANGED <<bufvars, started>>

Destroy ==
    /\ tlbtrace_destroy
    /\ started' = FALSE
    /\ UNCHANGED bufvars

\* INIT_TLB with no table and a size below one writes no entry; the counters
\* are still zero, nothing was counted without a table.
StartWithoutTable ==
    /\ ~halted
    /\ table = "null"
    /\ UNCHANGED vars

Start ==
    /\ tlbtrace_start \/ StartWithoutTable
    /\ OpenTrace(NameOf(minute, config))

Stop ==
    /\ ~halted
    /\ CloseTrace
    /\ UNCHANGED vars

tlbtrace_toggle ==
    /\ started' = ~started
    /\ IF started' THEN Start ELSE Stop

tlbtrace_enabled == started

\* tlbtrace_refmem_pwc: walk the page table, append the 4-tuple.
tlbtrace_refmem_pwc(page) ==
    \E w \in Walks : Put(<<page * 4096 + w[1], w[2], w[3], w[4]>>)

\* A hit records nothing; the miss that reaches the limit stops the tracer and
\* ends the process before its own tuple is built.
tlbtrace_refmem(page, asid, ins) ==
    /\ \/ (FastPath(page, asid, ins) \/ SearchHit(page, asid, ins))
          /\ UNCHANGED bufvars
       \/ Miss(page, asid, ins) /\ IF halted' THEN CloseTrace
                                              ELSE tlbtrace_refmem_pwc(page)
    /\ UNCHANGED started

-----------------------------------------------------------------------------
(* The emulator. *)

\* The call without arguments finds some values for size and set: a geometry,
\* or a size that malloc refuses and no table (NoConfig stands for such a size).
\* A set of 0, or a size no table can be searched with, ends the process in this
\* call or in the first one that needs the table: nothing follows.
EmulatorInit ==
    /\ client = "boot"
    /\ client' = "emulator"
    /\ \/ \E c \in Configs : Initialize(c)
       \/ started' = FALSE /\ UNCHANGED <<vars, bufvars>>
    /\ UNCHANGED <<minute, guest>>

F10 ==
    /\ Emulator
    /\ tlbtrace_toggle
    /\ UNCHANGED <<client, minute, guest>>

\* Data accesses (ins = 0) and, through qemu_trace_pc_helper, fetches.
tlbtrace_refmem_qemu(page, ins) ==
    /\ Emulator /\ started /\ usermode
    /\ tlbtrace_refmem(page, context, ins)
    /\ UNCHANGED <<client, minute, guest>>

\* The guest invalidates by CP15 c8, which is privileged.
GuestFlush ==
    /\ Emulator /\ started /\ ~usermode
    /\ \/ tlbtrace_flush_all
       \/ \E page \in Page, asid \in Asid : tlbtrace_flush_entry(page, asid)
       \/ \E asid \in Asid : tlbtrace_flush_asid(asid)
    /\ UNCHANGED <<bufvars, client, started, minute, guest>>

\* The guest changes mode, and in privileged mode its ASID by CP15 c13.
GuestSwitch ==
    /\ Emulator /\ ~halted
    /\ \/ usermode' = ~usermode /\ UNCHANGED context
       \/ ~usermode /\ context' \in Asid \ {context} /\ UNCHANGED usermode
    /\ UNCHANGED <<vars, bufvars, client, started, minute>>

-----------------------------------------------------------------------------
(* The library client. *)

LibraryInit ==
    /\ Library
    /\ \E c \in Configs : Initialize(c)
    /\ UNCHANGED <<client, minute, guest>>

LibraryDestroy ==
    /\ Library
    /\ Destroy
    /\ UNCHANGED <<client, minute, guest>>

\* start and stop are paired with each other, and toggle with itself: a client
\* that mixes them is outside this model (see EnabledTellsRunning for why).
LibraryStart ==
    /\ Library /\ ~open /\ table # "null"
    /\ Start
    /\ UNCHANGED <<client, started, minute, guest>>

LibraryStop ==
    /\ Library /\ open /\ ~started
    /\ Stop
    /\ UNCHANGED <<client, started, minute, guest>>

LibraryToggle ==
    /\ Library /\ started = open /\ table # "null"
    /\ tlbtrace_toggle
    /\ UNCHANGED <<client, minute, guest>>

LibraryRefmem ==
    /\ Library /\ open
    /\ \E page \in Page, asid \in Asid, ins \in BOOLEAN :
          tlbtrace_refmem(page, asid, ins)
    /\ UNCHANGED <<client, minute, guest>>

Tick ==
    /\ ~halted
    /\ minute + 1 \in Minutes
    /\ minute' = minute + 1
    /\ UNCHANGED <<vars, bufvars, client, started, guest>>

TracerNext ==
    \/ EmulatorInit \/ F10 \/ GuestFlush \/ GuestSwitch
    \/ \E page \in Page, ins \in BOOLEAN : tlbtrace_refmem_qemu(page, ins)
    \/ LibraryInit \/ LibraryDestroy \/ LibraryStart \/ LibraryStop
    \/ LibraryToggle \/ LibraryRefmem
    \/ Tick

TracerSpec == TracerInit /\ [][TracerNext]_tvars

-----------------------------------------------------------------------------
(* Properties. *)

TracerTypeOK ==
    /\ TypeOK
    /\ open \in BOOLEAN
    /\ fout \in File \cup {NoFile}
    /\ open => fout \in File
    /\ fbuf \in Seq(Nat)
    /\ disk \in [File -> Seq(Nat)]
    /\ expect \in [File -> Seq(Nat)]
    /\ client \in {"boot", "emulator", "library"}
    /\ started \in BOOLEAN
    /\ minute \in Minutes
    /\ usermode \in BOOLEAN
    /\ context \in Asid

\* No tuple is lost, doubled or reordered between tlbtrace_refmem_pwc and the
\* file: what a file holds, with what is still buffered for it, is what its
\* session produced, whenever the buffer was written out and however the
\* session ended, the limit of tlbtrace_refmem_sl included.
TraceComplete ==
    \A f \in File :
        disk[f] \o (IF open /\ f = fout THEN fbuf ELSE << >>) = expect[f]

\* A session's trace has one 4-tuple for each miss the main TLB counts.
EveryMissRecorded ==
    open /\ Ready => Len(expect[fout]) = 4 * sl_cnt.miss

\* The test fbc == 1024 * 1024 * 8 after each tuple never lets the next tuple
\* run over the end of the buffer.
BufferHasRoom == open => Len(fbuf) + 4 <= BufWords

\* The emulator's init call has left it without a table.
NoGeometry == Emulator /\ config = NoConfig

\* The hooks of the emulator act on "started" alone: whenever it is set, the
\* buffer and the file are open and, unless the init call without arguments
\* allocated none, the table is there and flushed.
HooksAreSafe == started /\ ~halted => open /\ (Ready \/ NoGeometry)

\* tlb_trace.h: tlbtrace_enabled is 0 when the tracer is not running, else 1.
EnabledTellsRunning == ~halted => (tlbtrace_enabled <=> open)

\* tlb_trace.h: each tlbtrace_start creates a new trace file; what an earlier
\* session stored stays.
NeverTruncated == [][\A f \in File : Len(disk'[f]) >= Len(disk[f])]_disk
=============================================================================

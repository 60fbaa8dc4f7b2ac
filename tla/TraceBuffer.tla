----------------------------- MODULE TraceBuffer ----------------------------
(***************************************************************************)
(* The trace file and its buffer (fbuf, fbc and fout of tlb_trace.c).  The *)
(* buffer is modelled by its first fbc words, so that Len(fbuf) is fbc.    *)
(* Module Tracer composes these operations with the main TLB.              *)
(***************************************************************************)
EXTENDS Integers, Sequences

CONSTANTS
    File,          \* names of trace files
    NoFile,        \* the value of fout before the first session
    BufWords,      \* words the buffer holds: 1024 * 1024 * 8
    ShortWrites    \* may write(2) accept less than it is given?

ASSUME BufAssumption == BufWords \in Nat /\ BufWords >= 4 /\ BufWords % 4 = 0
ASSUME ShortWritesAssumption == ShortWrites \in BOOLEAN

VARIABLES
    open,      \* fbuf is allocated and fout is an open descriptor
    fout,      \* the file that was opened last
    fbuf,
    disk,      \* contents of the trace files
    expect     \* history: what each file's session has put in the buffer

bufvars == <<open, fout, fbuf, disk, expect>>

BufInit ==
    /\ open = FALSE
    /\ fout = NoFile
    /\ fbuf = << >>
    /\ disk = [f \in File |-> << >>]
    /\ expect = [f \in File |-> << >>]

\* open(name, O_WRONLY | O_CREAT | O_TRUNC), fbc = 0, malloc.
OpenTrace(name) ==
    /\ open' = TRUE
    /\ fout' = name
    /\ fbuf' = << >>
    /\ disk' = [disk EXCEPT ![name] = << >>]
    /\ expect' = [expect EXCEPT ![name] = << >>]

\* The prefixes of the words that write(2) may have stored when it returns;
\* the callers do not look at its result.
Stored(words) ==
    IF ShortWrites THEN {SubSeq(words, 1, n) : n \in 0..Len(words)} ELSE {words}

Write(words) == \E w \in Stored(words) : disk' = [disk EXCEPT ![fout] = @ \o w]

\* Mutant: tests for a full buffer before it appends.
Put_TestsFirst(tuple) ==
    /\ IF Len(fbuf) = BufWords
       THEN Write(fbuf) /\ fbuf' = tuple
       ELSE fbuf' = fbuf \o tuple /\ UNCHANGED disk
    /\ expect' = [expect EXCEPT ![fout] = @ \o tuple]
    /\ UNCHANGED <<open, fout>>

\* Append one 4-tuple and write the buffer out when it is full.
Put(tuple) ==
    LET filled == fbuf \o tuple
    IN  /\ IF Len(filled) = BufWords
           THEN Write(filled) /\ fbuf' = << >>
           ELSE fbuf' = filled /\ UNCHANGED disk
        /\ expect' = [expect EXCEPT ![fout] = @ \o tuple]
        /\ UNCHANGED <<open, fout>>

\* Mutant: closes without writing what is left.
CloseTrace_DropsTail ==
    /\ fbuf' = << >>
    /\ open' = FALSE
    /\ UNCHANGED <<fout, disk, expect>>

\* Write what is left, free(fbuf), close(fout).  fbc keeps its value, but the
\* buffer is gone and nothing reads fbc before tlbtrace_start resets it.
CloseTrace ==
    /\ IF fbuf # << >> THEN Write(fbuf) ELSE UNCHANGED disk
    /\ fbuf' = << >>
    /\ open' = FALSE
    /\ UNCHANGED <<fout, expect>>
=============================================================================

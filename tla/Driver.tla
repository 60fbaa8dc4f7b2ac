------------------------------- MODULE Driver -------------------------------
(***************************************************************************)
(* tlbsim_sim (tlb_sim.c) and its client main.c: the trace files of a      *)
(* directory are selected by name, sorted and simulated one after the      *)
(* other, and the results returned as a list.  A client may also call the  *)
(* functions of the four organisations itself, as module Simulator does.   *)
(*                                                                         *)
(* A trace file name trace_MMDD_hhmm_SIZE.WAY is a record of what the code *)
(* tells apart; WAY is the sequence of its decimal digits.                 *)
(***************************************************************************)
EXTENDS Simulator, Sequences, FiniteSets, Functions, TLC

CONSTANTS
    Directories,     \* directories, each in the order in which readdir lists it
    TlbSizes,        \* main TLB sizes asked for
    Digits(_),       \* Digits(n): the decimal digits of n
    MaxTraceFiles    \* length of trace_files: 128

Name == [trace : BOOLEAN, when : Nat, size : Nat, way : Seq(0..9)]

ASSUME DirectoriesAssumption ==
    \A dir \in Directories : dir \in Seq(Name) /\ IsInjective(dir)
ASSUME MaxTraceFilesAssumption == MaxTraceFiles \in Nat \ {0}

VARIABLES
    caller,       \* "client", in tlbsim_sim ("list") or back from it ("returned")
    call,         \* the arguments of tlbsim_sim
    trace_files,  \* its first trace_count elements
    results       \* results[i]: the file the i-th result is for; NULL follows

listvars == <<caller, call, trace_files, results>>
dvars    == <<vars, listvars>>

NoCall == [dir |-> <<>>, size |-> 0, way |-> 0]

DriverInit ==
    /\ Init
    /\ caller = "client"
    /\ call = NoCall
    /\ trace_files = <<>>
    /\ results = <<>>

-----------------------------------------------------------------------------
(* list_trace_files *)

\* strstr finds "_SIZE.WAY" in the name; nothing need follow WAY, but more
\* digits may.
Selected(name, size, way) ==
    /\ name.trace
    /\ name.size = size
    /\ Len(Digits(way)) <= Len(name.way)
    /\ Digits(way) = SubSeq(name.way, 1, Len(Digits(way)))

\* strcmp on names that begin with "trace_" and have the same SIZE.
Key(name) == <<name.when>> \o name.way

\* The first difference decides, or the end of the shorter one.
comparator(a, b) ==
    \E i \in 1..Len(Key(b)) :
        /\ i = Len(Key(a)) + 1 \/ (i <= Len(Key(a)) /\ Key(a)[i] < Key(b)[i])
        /\ \A j \in 1..(i - 1) : Key(a)[j] = Key(b)[j]

\* Mutant: the order of readdir.
list_trace_files_Unsorted(dir, size, way) ==
    LET found == SelectSeq(dir, LAMBDA name : Selected(name, size, way))
    IN  SubSeq(found, 1, IF Len(found) < MaxTraceFiles THEN Len(found)
                                                       ELSE MaxTraceFiles)

\* The first MaxTraceFiles of the selected names that readdir lists, sorted.  A
\* directory that cannot be opened counts as empty.
list_trace_files(dir, size, way) ==
    LET found == SelectSeq(dir, LAMBDA name : Selected(name, size, way))
        kept  == SubSeq(found, 1, IF Len(found) < MaxTraceFiles THEN Len(found)
                                                                ELSE MaxTraceFiles)
    IN  SortSeq(kept, comparator)

-----------------------------------------------------------------------------
(* tlbsim_sim *)

tlbsim_sim(dir, size, way) ==
    /\ caller = "client" /\ phase = "idle"
    /\ caller' = "list"
    /\ call' = [dir |-> dir, size |-> size, way |-> way]
    /\ trace_files' = list_trace_files(dir, size, way)
    /\ results' = <<>>
    /\ UNCHANGED vars

\* funcs[cmd] on a zeroed result: all caches have the associativity asked for.
\* The organisation and the sizes are those of the first trace.
RunTrace ==
    /\ caller = "list"
    /\ Len(results) < Len(trace_files)
    /\ \/ \E g \in NtlbGeometry : g[2] = call.way /\ tlbsim_sim_ntlb(g)
       \/ \E g \in PwcGeometry : g[2] = call.way /\
            (tlbsim_sim_pwc_ept(g) \/ tlbsim_sim_pwc_noept(g))
       \/ \E g \in NtlbGeometry, h \in PwcGeometry :
            g[2] = call.way /\ h[2] = call.way /\ tlbsim_sim_ntlb_pwc(g, h)
    /\ results # <<>> => UNCHANGED <<cmd, ntlb_geo, pwc_geo>>
    /\ UNCHANGED listvars

ReadTrace ==
    /\ caller = "list"
    /\ \E t \in Tuples : Read(t)
    /\ UNCHANGED listvars

\* Mutant: the loop does not advance.
TraceDone_NoAdvance ==
    /\ caller = "list"
    /\ Finish
    /\ UNCHANGED listvars

TraceDone ==
    /\ caller = "list"
    /\ Finish
    /\ results' = Append(results, trace_files[Len(results) + 1])
    /\ UNCHANGED <<caller, call, trace_files>>

Return ==
    /\ caller = "list" /\ phase = "idle"
    /\ Len(results) = Len(trace_files)
    /\ caller' = "returned"
    /\ UNCHANGED <<vars, call, trace_files, results>>

\* The steps that advance the loop of tlbsim_sim.
ListStep == RunTrace \/ TraceDone \/ Return

\* main prints the results up to the NULL and frees them.  trace_files stays, but
\* list_trace_files resets trace_count before anything reads it.
PrintResults ==
    /\ caller = "returned"
    /\ caller' = "client"
    /\ call' = NoCall
    /\ results' = <<>>
    /\ trace_files' = <<>>
    /\ UNCHANGED vars

DriverNext ==
    \/ caller = "client" /\ Next /\ UNCHANGED listvars
    \/ \E dir \in Directories, size \in TlbSizes,
          way \in {g[2] : g \in NtlbGeometry \cup PwcGeometry} :
            tlbsim_sim(dir, size, way)
    \/ ReadTrace
    \/ ListStep
    \/ PrintResults

\* The simulator does not stop in the middle of a list, and every trace ends.
DriverSpec == DriverInit /\ [][DriverNext]_dvars /\ WF_dvars(ListStep)

-----------------------------------------------------------------------------
(* Properties. *)

\* tlb_sim.h: "The results are returned as a list ordered by filename and
\* terminated by a NULL element."  The results are in strict order of the names and
\* of traces of the size asked for, and a trace of the size and associativity asked
\* for has one, unless more names were selected than trace_files can hold.  The
\* others are traces whose associativity begins with the same digits ("all traces",
\* says tlb_sim.h, and "the same set associativity"; strstr says otherwise).
ResultsInOrder ==
    caller = "returned" =>
        LET way      == Digits(call.way)
            ofSize   == {name \in Range(call.dir) : name.trace /\ name.size = call.size}
            selected == {name \in ofSize : SubSeq(name.way, 1, Len(way)) = way}
            asked    == {name \in ofSize : name.way = way}
        IN  /\ \A i, j \in DOMAIN results : i < j => comparator(results[i], results[j])
            /\ Range(results) \subseteq selected
            /\ Cardinality(selected) <= MaxTraceFiles => asked \subseteq Range(results)

\* A call of tlbsim_sim returns.
ListEnds == caller = "list" ~> caller = "returned"
=============================================================================

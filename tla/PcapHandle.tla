----------------------------- MODULE PcapHandle -----------------------------
(***************************************************************************)
(* The Native Handle Registry of jxnet.c: every JNI entry that resolves a  *)
(* Pcap, PcapDumper or BpfProgram object to its native pointer (GetPcap,   *)
(* GetPcapDumper, GetBpfProgram in utils.c) and calls libpcap with it.     *)
(* Calls are made by one Java thread, one at a time; each entry is one     *)
(* atomic step.  The data (addresses, file names, packets, filter text) is *)
(* abstracted to what the handle discipline tells apart: whether a pointer *)
(* is 0, whether its native object is alive, and what the call reported.  *)
(*                                                                         *)
(* GetX throws XCloseException when the address is 0 and returns NULL; a   *)
(* caller that then passes NULL on to libpcap or stdio dereferences it     *)
(* ("null_pcap", "null_stream"); a caller that makes another JNI call      *)
(* (ThrowNew, NewObject) with that exception pending has undefined         *)
(* behaviour ("jni_pending").  Such a step ends the behaviour.             *)
(***************************************************************************)
EXTENDS Integers

CONSTANTS
  LinkTypes,     \* link-type / datalink ints the caller passes
  Snaplens,      \* snaplen ints the caller passes
  Counts,        \* count ints the caller passes to PcapLoop and PcapDispatch
  ErrorCodes,    \* error numbers the caller passes to PcapStrError
  OpenDeadMayFail, \* pcap_open_dead may fail to allocate its pcap_t
  MaxCalls       \* bound on JNI calls in one behaviour

VARIABLES
  psess, pmem,          \* Pcap object: its address ("none" before open), the pcap_t
  dsess, dmem,          \* PcapDumper object: its address, the pcap_dumper_t
  fptr, code, filter,   \* BpfProgram address, its bf_insns, filter installed
  insns,                \* bf_insns arrays pcap_compile allocated, not yet freed
  hids,                 \* PcapPktHdr's class and field IDs are loaded
  last,                 \* the entry point and int arguments of the last call
  res,                  \* what the last call reported to Java
  fault,                \* undefined behaviour reached, "none" if not
  calls

pvars == <<psess, pmem>>
dvars == <<dsess, dmem>>
fvars == <<fptr, code, filter, insns>>
vars == <<pvars, dvars, fvars, hids, last, res, fault, calls>>

Faults == {"none", "null_pcap", "null_stream", "null_buffer", "null_fid",
           "jni_pending", "use_after_free"}

-----------------------------------------------------------------------------
(* Argument checks as the code writes them (CheckArgument lines).          *)
OpenLiveArgsOK(s) == s > 0 /\ s < 65536
OpenDeadArgsOK(l, s) == l < 1 /\ (s > 0 \/ s < 65535)
SetDatalinkArgOK(d) == d < 1
LoopArgsOK(c) == c > 0
CompileNoPcapArgsOK(s, l) == s > 0 /\ s < 65535 /\ l < 1
StrErrorArgOK(e) == e < 0
ValToNameArgOK(d) == d < 1
ValToDescriptionArgOK(d) == d < 1

(* A call of entry e with link type l and snaplen s (0 where it takes     *)
(* none), made while nothing has gone wrong.                               *)
Call(e, l, s) == /\ fault = "none" /\ calls < MaxCalls /\ calls' = calls + 1
                 /\ last' = [e |-> e, l |-> l, s |-> s]

Crash(f) == fault' = f /\ UNCHANGED <<pvars, dvars, fvars, res>>

(* CheckArgument fails fast: IllegalArgumentException, nothing touched.    *)
Reject == res' = "invalid" /\ UNCHANGED <<pvars, dvars, fvars, fault>>

(* GetPcap: for a closed object it throws PcapCloseException and returns  *)
(* NULL, and the entry does OnClosed; for an open one the entry goes on    *)
(* with A, which touches the pcap_t the pointer names.                     *)
WithPcap(OnClosed, A) ==
  \/ psess = "closed" /\ OnClosed
  \/ psess = "open" /\ pmem = "freed" /\ Crash("use_after_free")
  \/ psess = "open" /\ pmem = "alive" /\ A

(* GetPcapDumper, the same for a PcapDumper object.                        *)
WithDumper(OnClosed, A) ==
  \/ dsess = "closed" /\ OnClosed
  \/ dsess = "open" /\ dmem = "freed" /\ Crash("use_after_free")
  \/ dsess = "open" /\ dmem = "alive" /\ A

(* Seeded fault: GetX returns NULL for address 0 without throwing, and    *)
(* the entry returns its error value.                                      *)
ClosedAsError == res' = "error" /\ UNCHANGED <<pvars, dvars, fvars, fault>>

(* The entry returns to Java with the close exception GetX threw.          *)
ReportClosed == res' = "closed" /\ UNCHANGED <<pvars, dvars, fvars, fault>>

(* A native call on an open handle that returns success or an error code. *)
NativeResult == res' \in {"ok", "error"} /\ UNCHANGED <<pvars, dvars, fvars, fault>>

-----------------------------------------------------------------------------
PcapOpenLive ==
  /\ psess = "none"
  /\ \E s \in Snaplens : Call("PcapOpenLive", 0, s) /\
       IF ~OpenLiveArgsOK(s) THEN Reject
       ELSE \/ psess' = "open" /\ pmem' = "alive"
               /\ res' = "ok" /\ UNCHANGED <<dvars, fvars, fault>>
            \/ res' = "error" /\ UNCHANGED <<pvars, dvars, fvars, fault>>

PcapOpenOffline ==
  /\ Call("PcapOpenOffline", 0, 0) /\ psess = "none"
  /\ \/ psess' = "open" /\ pmem' = "alive"
        /\ res' = "ok" /\ UNCHANGED <<dvars, fvars, fault>>
     \/ res' = "error" /\ UNCHANGED <<pvars, dvars, fvars, fault>>

(* pcap_open_dead returns NULL when it cannot allocate; the code wraps it   *)
(* unchecked in a Pcap object of address 0, which every later GetPcap     *)
(* takes for a closed one.                                                 *)
OpenDeadNoMem ==
  /\ OpenDeadMayFail
  /\ psess' = "closed" /\ pmem' = "none" /\ res' = "ok" /\ UNCHANGED <<dvars, fvars, fault>>

PcapOpenDead ==
  /\ psess = "none"
  /\ \E l \in LinkTypes, s \in Snaplens : Call("PcapOpenDead", l, s) /\
       IF ~OpenDeadArgsOK(l, s) THEN Reject
       ELSE \/ psess' = "open" /\ pmem' = "alive"
               /\ res' = "ok" /\ UNCHANGED <<dvars, fvars, fault>>
            \/ OpenDeadNoMem


(* pcap_close, then the object's address is replaced by 0.                 *)
ClosePcap == psess' = "closed" /\ pmem' = "freed" /\ res' = "ok"
             /\ UNCHANGED <<dvars, fvars, fault>>

PcapClose == Call("PcapClose", 0, 0) /\ psess # "none" /\ WithPcap(ReportClosed, ClosePcap)

(* An entry that checks GetPcap's result and returns libpcap's answer.    *)
Query(e) == Call(e, 0, 0) /\ psess # "none" /\ WithPcap(ReportClosed, NativeResult)

PcapDatalink == Query("PcapDatalink")
PcapGetErr == Query("PcapGetErr")
PcapIsSwapped == Query("PcapIsSwapped")
PcapSnapshot == Query("PcapSnapshot")
PcapMajorVersion == Query("PcapMajorVersion")
PcapMinorVersion == Query("PcapMinorVersion")
PcapSetNonBlock == Query("PcapSetNonBlock")
PcapGetNonBlock == Query("PcapGetNonBlock")
(* A non-direct buffer is refused with NullPointerException: an error.    *)
PcapSendPacket == Query("PcapSendPacket")

PcapSetDatalink ==
  /\ psess # "none"
  /\ \E d \in LinkTypes : Call("PcapSetDatalink", d, 0) /\
       IF ~SetDatalinkArgOK(d) THEN Reject
       ELSE WithPcap(ReportClosed, NativeResult)

(* An entry that hands GetPcap's result to libpcap unchecked.             *)
Unchecked(e) == Call(e, 0, 0) /\ psess # "none" /\ WithPcap(Crash("null_pcap"), NativeResult)

PcapStats == Unchecked("PcapStats")
PcapFile == Unchecked("PcapFile")
PcapPError == Unchecked("PcapPError")

-----------------------------------------------------------------------------
(* BpfProgram: the struct bpf_program is allocated on the Java side; an    *)
(* object whose address is 0 makes GetBpfProgram throw                     *)
(* BpfProgramCloseException and return NULL, after which every caller      *)
(* throws again (ThrowNew with an exception pending).                      *)

(* GetBpfProgram, then A on the struct it names.                           *)
WithProgram(A) ==
  \/ fptr = "null" /\ Crash("jni_pending")
  \/ fptr = "set" /\ A

(* pcap_compile allocates a new bf_insns and stores it over whatever the   *)
(* program held, or fails and leaves the program alone.                    *)
Compile ==
  \/ code' = "compiled" /\ insns' = insns + 1 /\ res' = "ok"
     /\ UNCHANGED <<pvars, dvars, fptr, filter, fault>>
  \/ NativeResult

PcapCompile ==
  /\ Call("PcapCompile", 0, 0) /\ psess # "none"
  /\ WithPcap(ReportClosed, WithProgram(Compile))

(* pcap_setfilter installs a copy of compiled code; empty code is refused. *)
PcapSetFilter ==
  /\ Call("PcapSetFilter", 0, 0) /\ psess # "none"
  /\ WithPcap(ReportClosed, WithProgram(
       \/ code = "compiled" /\ filter' = TRUE /\ res' = "ok"
          /\ UNCHANGED <<pvars, dvars, fptr, code, insns, fault>>
       \/ NativeResult))

(* pcap_freecode frees bf_insns and sets it to NULL; a second call is a   *)
(* no-op.  The struct itself and the installed copy stay.                  *)
PcapFreeCode ==
  /\ Call("PcapFreeCode", 0, 0)
  /\ WithProgram(/\ code' = "empty" /\ res' = "ok"
                 /\ insns' = IF code = "compiled" THEN insns - 1 ELSE insns
                 /\ UNCHANGED <<pvars, dvars, fptr, filter, fault>>)

PcapCompileNoPcap ==
  \E l \in LinkTypes, s \in Snaplens :
    /\ Call("PcapCompileNoPcap", l, s)
    /\       IF ~CompileNoPcapArgsOK(s, l) THEN Reject
       ELSE WithProgram(Compile)

-----------------------------------------------------------------------------
(* PcapDumper.  The model follows one dumper object.                       *)

(* GetPcap; pcap_dump_open fails (PcapDumperCloseException with           *)
(* pcap_geterr) or a PcapDumper object is returned.                        *)
PcapDumpOpen ==
  /\ Call("PcapDumpOpen", 0, 0) /\ psess # "none" /\ dsess = "none"
  /\ WithPcap(ReportClosed,
       \/ dsess' = "open" /\ dmem' = "alive" /\ res' = "ok"
          /\ UNCHANGED <<pvars, fvars, fault>>
       \/ res' = "error" /\ UNCHANGED <<pvars, dvars, fvars, fault>>)

(* GetPcapDumper; NULL leads to a second ThrowNew.  The payload is read    *)
(* with GetDirectBufferAddress, NULL for a non-direct ByteBuffer, and      *)
(* pcap_dump copies caplen bytes from it.                                  *)
(* The header is read with GetIntField/GetLongField through PcapPktHdr's  *)
(* field IDs, which PcapDump does not load itself (its SetPcapPktHdrIDs   *)
(* is commented out): before any read entry loaded them they are NULL.     *)
PcapDump ==
  /\ Call("PcapDump", 0, 0) /\ dsess # "none"
  /\ WithDumper(Crash("jni_pending"),
       IF ~hids THEN Crash("null_fid")
       ELSE \E direct \in BOOLEAN :
              IF direct THEN res' = "ok" /\ UNCHANGED <<pvars, dvars, fvars, fault>>
              ELSE Crash("null_buffer"))

(* pcap_dump_flush(NULL) is fflush(NULL), which flushes every stream and  *)
(* returns 0: the call returns with the close exception pending.          *)
PcapDumpFlush ==
  /\ Call("PcapDumpFlush", 0, 0) /\ dsess # "none"
  /\ WithDumper(ReportClosed, NativeResult)

(* pcap_dump_close(GetPcapDumper(...)), then the address is set to 0.      *)
PcapDumpClose ==
  /\ Call("PcapDumpClose", 0, 0) /\ dsess # "none"
  /\ WithDumper(Crash("null_stream"),
       dsess' = "closed" /\ dmem' = "freed" /\ res' = "ok" /\ UNCHANGED <<pvars, fvars, fault>>)

(* pcap_dump_ftell(NULL) is ftell(NULL).                                   *)
PcapDumpFTell ==
  /\ Call("PcapDumpFTell", 0, 0) /\ dsess # "none"
  /\ WithDumper(Crash("null_stream"), NativeResult)

(* pcap_dump_file(NULL) returns NULL; SetFile then calls NewObject with   *)
(* the close exception pending.                                            *)
PcapDumpFile ==
  /\ Call("PcapDumpFile", 0, 0) /\ dsess # "none"
  /\ WithDumper(Crash("jni_pending"), res' = "ok" /\ UNCHANGED <<pvars, dvars, fvars, fault>>)

-----------------------------------------------------------------------------
(* Entries that name no handle.  libpcap answers from its own tables      *)
(* ("answer"), or with NULL for an unknown link type, which NewStringUTF   *)
(* turns into null, or -1 for an unknown name ("unknown").                 *)
NoHandle == res' \in {"answer", "unknown"} /\ UNCHANGED <<pvars, dvars, fvars, fault>>

PcapLibVersion == Call("PcapLibVersion", 0, 0) /\ res' = "answer"
                  /\ UNCHANGED <<pvars, dvars, fvars, fault>>

PcapStrError ==
  \E x \in ErrorCodes : Call("PcapStrError", x, 0) /\
    IF ~StrErrorArgOK(x) THEN Reject
    ELSE res' = "answer" /\ UNCHANGED <<pvars, dvars, fvars, fault>>

PcapDatalinkValToName ==
  \E d \in LinkTypes : Call("PcapDatalinkValToName", d, 0) /\
    IF ~ValToNameArgOK(d) THEN Reject ELSE NoHandle

PcapDatalinkValToDescription ==
  \E d \in LinkTypes : Call("PcapDatalinkValToDescription", d, 0) /\
    IF ~ValToDescriptionArgOK(d) THEN Reject ELSE NoHandle

PcapDatalinkNameToVal == Call("PcapDatalinkNameToVal", 0, 0) /\ NoHandle

-----------------------------------------------------------------------------
(* The read entries, as far as the registry sees them: PcapDispatch models *)
(* what they do with frames, breaks and the handler.                       *)

(* SetPcapPktHdrIDs loads PcapPktHdr's class and field IDs once for the    *)
(* process (ids.c).                                                        *)
SetPcapPktHdrIDs == hids' = TRUE

(* PcapLoop, PcapDispatch: CheckArgument(jcnt > 0), SetPcapPktHdrIDs, then *)
(* GetPcap and pcap_loop / pcap_dispatch.                                  *)
ReadLoop(e) ==
  /\ psess # "none"
  /\ \E c \in Counts : Call(e, c, 0) /\
       IF ~LoopArgsOK(c) THEN Reject /\ UNCHANGED hids
       ELSE SetPcapPktHdrIDs /\ WithPcap(ReportClosed, NativeResult)

PcapLoop == ReadLoop("PcapLoop")
PcapDispatch == ReadLoop("PcapDispatch")

(* PcapNext, PcapNextEx: GetPcap, then SetPcapPktHdrIDs while              *)
(* PcapPktHdrClass is NULL, then one read.                                 *)
ReadOne(e, Read) ==
  /\ Call(e, 0, 0) /\ psess # "none"
  /\ WithPcap(ReportClosed /\ UNCHANGED hids, SetPcapPktHdrIDs /\ Read)

(* pcap_next_ex's record is copied into the caller's ByteBuffer with put,  *)
(* which throws BufferOverflowException when the buffer has less room     *)
(* than caplen; the four SetIntField/SetLongField calls after it then run  *)
(* with that exception pending.                                            *)
CopyRecord == NativeResult \/ Crash("jni_pending")

PcapNext == ReadOne("PcapNext", NativeResult)
PcapNextEx == ReadOne("PcapNextEx", CopyRecord)

-----------------------------------------------------------------------------
Init ==
  /\ psess = "none" /\ pmem = "none"
  /\ dsess = "none" /\ dmem = "none"
  /\ fptr \in {"null", "set"} /\ code = "empty" /\ filter = FALSE /\ insns = 0
  /\ hids = FALSE
  /\ last = [e |-> "none", l |-> 0, s |-> 0]
  /\ res = "none" /\ fault = "none" /\ calls = 0

(* Every entry but the read ones leaves PcapPktHdr's IDs as they are.     *)
OtherEntry ==
  \/ PcapOpenLive \/ PcapOpenOffline \/ PcapOpenDead \/ PcapClose
  \/ PcapDatalink \/ PcapGetErr \/ PcapIsSwapped \/ PcapSnapshot
  \/ PcapMajorVersion \/ PcapMinorVersion \/ PcapSetNonBlock \/ PcapGetNonBlock
  \/ PcapSendPacket \/ PcapSetDatalink \/ PcapStats \/ PcapFile \/ PcapPError
  \/ PcapCompile \/ PcapSetFilter \/ PcapFreeCode \/ PcapCompileNoPcap
  \/ PcapDumpOpen \/ PcapDump \/ PcapDumpFlush \/ PcapDumpClose
  \/ PcapDumpFTell \/ PcapDumpFile
  \/ PcapLibVersion \/ PcapStrError \/ PcapDatalinkValToName
  \/ PcapDatalinkValToDescription \/ PcapDatalinkNameToVal

Next ==
  \/ PcapLoop \/ PcapDispatch \/ PcapNext \/ PcapNextEx
  \/ OtherEntry /\ UNCHANGED hids

Spec == Init /\ [][Next]_vars

-----------------------------------------------------------------------------
(* Refinement mapping onto the registry's promise.  A call that names no   *)
(* handle and passes its checks is the registry's Unbound step.            *)

AbsState(s) == IF s = "none" THEN "unopened" ELSE s

LC == INSTANCE HandleLifecycle WITH
        Handles <- {"pcap", "dumper", "program"},
        Preexisting <- {"program"},
        hstate <- [h \in {"pcap", "dumper", "program"} |->
                     CASE h = "pcap"   -> AbsState(psess)
                       [] h = "dumper" -> AbsState(dsess)
                       [] OTHER        -> IF fptr = "set" THEN "open" ELSE "closed"],
        held <- [h \in {"pcap", "dumper", "program"} |->
                   CASE h = "pcap"   -> pmem = "alive"
                     [] h = "dumper" -> dmem = "alive"
                     [] OTHER        -> fptr = "set"],
        outcome <- IF res \in {"answer", "unknown"} THEN "unbound" ELSE res

(* Every JNI call that returns to Java does what the registry promises:    *)
(* open acquires and close releases the native object once, a call on a    *)
(* closed Pcap or PcapDumper reports its close exception, a call on an     *)
(* open one reaches libpcap, and a rejected argument changes nothing       *)
(* (GetPcap/GetPcapDumper/GetBpfProgram and every entry of jxnet.c that    *)
(* uses them).  A call that ends in undefined behaviour is not a return.   *)
Lifecycle == LC!Spec

(* No JNI entry on a Pcap, PcapDumper or BpfProgram object crashes the    *)
(* process.  A call on a closed object reports ClosedResource (spec 8): it *)
(* neither dereferences the NULL its getter returned (PcapStats, PcapFile, *)
(* PcapPError, PcapDumpClose, PcapDumpFTell) nor makes a JNI call with the *)
(* getter's exception pending, which the JNI specification leaves          *)
(* undefined (PcapDump, PcapCompile, PcapSetFilter, PcapFreeCode,          *)
(* PcapCompileNoPcap, PcapDumpFile).  Nor does a call on an open object:   *)
(* PcapNextEx's SetIntField calls after ByteBuffer.put threw (448-452),    *)
(* PcapDump's header read through field IDs nobody loaded (264-267) and    *)
(* its pcap_dump of a non-direct ByteBuffer's NULL address (268-269).      *)
EntriesNeverCrash == fault = "none"

(* A call that returns to Java reports IllegalArgumentException exactly   *)
(* when its arguments lie outside the spec's domains (spec 6: snaplen in   *)
(* (0, 65536), link-type and datalink values >= 1, a positive loop count), *)
(* for the CheckArgument lines of PcapOpenLive, PcapOpenDead, PcapLoop,    *)
(* PcapDispatch, PcapSetDatalink, PcapCompileNoPcap,                       *)
(* PcapDatalinkValToName/ValToDescription, and PcapStrError, whose error   *)
(* code the spec does not restrict.                                        *)
SpecSnaplen(s) == s > 0 /\ s < 65536
SpecLinkType(l) == l >= 1

SpecDomain(c) ==
  CASE c.e = "PcapOpenLive"    -> SpecSnaplen(c.s)
    [] c.e \in {"PcapSetDatalink", "PcapDatalinkValToName",
               "PcapDatalinkValToDescription"} -> SpecLinkType(c.l)
    [] c.e \in {"PcapOpenDead", "PcapCompileNoPcap"} -> SpecLinkType(c.l) /\ SpecSnaplen(c.s)
    [] c.e \in {"PcapLoop", "PcapDispatch"} -> c.l > 0
    [] OTHER                   -> TRUE

RejectsExactlyOutsideSpec == fault = "none" => ((res = "invalid") <=> ~SpecDomain(last))

(* A compiled filter's code is released exactly once (spec 4.1, Compiled   *)
(* Filter): every bf_insns array pcap_compile allocated, in PcapCompile or *)
(* PcapCompileNoPcap, is either the one the BpfProgram names now or one    *)
(* PcapFreeCode has freed; compiling into a program that still holds code  *)
(* must not drop the old array.                                            *)
FilterCodeAccounted == insns = IF code = "compiled" THEN 1 ELSE 0

=============================================================================

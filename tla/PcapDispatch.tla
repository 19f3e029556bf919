---------------------------- MODULE PcapDispatch ----------------------------
(***************************************************************************)
(* The capture-and-dispatch path of Jxnet (src/src/jxnet.c and             *)
(* src/jni/src/utils.c).  One Java Pcap object and the native pcap_t it    *)
(* wraps; a loop thread L that opens and closes it, calls PcapLoop,        *)
(* PcapDispatch, PcapNext and PcapNextEx, and runs the Java PcapHandler    *)
(* that pcap_callback invokes once per frame; and a second thread B that   *)
(* calls PcapBreakLoop.                                                    *)
(*                                                                         *)
(* libpcap is the black box the binding calls.  Its loop is modelled by    *)
(* its documented contract: the break_loop flag is tested before every     *)
(* record, a break seen before any record is cleared and reported as -2,   *)
(* a break seen after some records ends the batch and is left set;         *)
(* pcap_dispatch returns the batch count, pcap_loop returns 0 when its     *)
(* count is used up or the file ends and retries a live read that timed    *)
(* out.  A step that reaches undefined behaviour records it in `fault`.    *)
(***************************************************************************)
EXTENDS Integers

CONSTANTS
  Counts,          \* the jcnt arguments the Java caller passes
  FileLen,         \* the most records an offline capture file holds
  MaxCalls,        \* bound on the JNI calls thread L makes
  MaxBreaks,       \* bound on the PcapBreakLoop calls of thread B
  HandlerOps       \* what the Java nextPacket may do before it returns

ASSUME /\ Counts \subseteq Int
       /\ FileLen \in Nat /\ MaxCalls \in Nat /\ MaxBreaks \in Nat
       /\ HandlerOps \subseteq {"return", "break", "close", "throw"}
       /\ "return" \in HandlerOps

VARIABLES
  sess,      \* the Java Pcap object: "none" (not opened), "open", "closed" (address 0)
  native,    \* the pcap_t it points to: "none", "alive", "freed"
  kind,      \* what the session captures from: "none", "live", "offline"
  file,      \* records left in the offline file
  tail,      \* how the offline file ends: "eof" or a truncated record, "error"
  queued,    \* a frame is waiting in the live capture buffer
  brk,       \* libpcap's p->break_loop flag
  pc,        \* thread L: "idle", "read" (in libpcap's read loop), "handler"
  entry,     \* the JNI entry point of L's current or last call
  ncall,     \* the libpcap loop it runs: "loop" (pcap_loop) or "dispatch"
  cnt,       \* pcap_loop's remaining count
  n,         \* records the current read batch has processed
  jcnt,      \* the count argument of the current or last loop call
  got,       \* frames delivered to Java by the current or last call
  ret,       \* what the last call returned to Java
  pending,   \* the Java exception pending on thread L, or "none"
  brkSince,  \* history: a break was requested while the current call ran
  bpc,       \* thread B: "idle" or "resolved" (holds the pointer GetPcap gave)
  calls,     \* JNI calls made by L
  breaks,    \* PcapBreakLoop calls made by B
  fault      \* the first undefined behaviour reached, or "none"

obj   == <<sess, native, kind, file, tail, queued>>
loopL == <<pc, entry, ncall, cnt, n, jcnt, got, ret, pending, brkSince, calls>>
vars  == <<obj, loopL, brk, bpc, breaks, fault>>

Faults == {"none", "use_after_free", "double_free", "jni_pending"}
Excs   == {"none", "IllegalArgument", "PcapClose", "Handler"}

----------------------------------------------------------------------------
(* Helpers shared by the entry points.                                     *)

\* Undefined behaviour: the run of the program is over.
Fault(f) == /\ fault' = f
            /\ UNCHANGED <<obj, brk, bpc, breaks>>

\* A new JNI call from Java on thread L: the previous exception was handled.
Begin(e) == /\ pc = "idle" /\ fault = "none" /\ calls < MaxCalls
            /\ entry' = e
            /\ calls' = calls + 1

\* pcap_loop's count: zero or less means "no limit" to libpcap.
Limited == cnt > 0

\* What the next record read by libpcap can be.
Outcomes ==
  IF brk THEN {"break"}
  ELSE IF kind = "live" THEN IF queued THEN {"record"} ELSE {"timeout"}
  ELSE IF file > 0 THEN {"record"} ELSE {tail}

\* libpcap takes the record it read out of the file or the capture buffer.
Consume == /\ file' = IF kind = "offline" THEN file - 1 ELSE file
           /\ queued' = FALSE

\* The JNI call returns r to Java.
Return(r) == /\ pc' = "idle" /\ ret' = r /\ n' = 0
             /\ UNCHANGED cnt

\* pcap_loop goes round again with count c.
Continue(c) == /\ cnt' = c /\ n' = 0
               /\ UNCHANGED <<pc, ret>>

\* A read batch of libpcap ends with r: pcap_dispatch returns it; pcap_loop
\* returns r <= 0, retries a live read that timed out, and otherwise takes r
\* off a limited count, returning 0 once the count is used up.
EndBatch(r) ==
  CASE ncall = "dispatch"      -> Return(r)
    [] r = 0 /\ kind = "live"  -> Continue(cnt)
    [] r <= 0                  -> Return(r)
    [] Limited /\ cnt - r <= 0 -> Return(0)
    [] OTHER                   -> Continue(IF Limited THEN cnt - r ELSE cnt)

----------------------------------------------------------------------------
(* Opening a session.                                                      *)

\* PcapOpenLive: pcap_open_live either fails (errbuf copied to the caller's
\* StringBuilder, NULL returned) or yields a Pcap object holding the pointer.
PcapOpenLive ==
  /\ Begin("PcapOpenLive") /\ sess = "none"
  /\ \/ /\ sess' = "open" /\ native' = "alive" /\ kind' = "live"
        /\ UNCHANGED <<file, tail, queued>>
     \/ UNCHANGED obj
  /\ UNCHANGED <<pc, ncall, cnt, n, jcnt, got, ret, pending, brkSince, brk, bpc, breaks, fault>>

\* PcapOpenOffline: pcap_open_offline on a file of len records ending in t,
\* or a failure that leaves no session.
PcapOpenOffline ==
  /\ Begin("PcapOpenOffline") /\ sess = "none"
  /\ \/ \E len \in 0..FileLen, t \in {"eof", "error"} :
          /\ sess' = "open" /\ native' = "alive" /\ kind' = "offline"
          /\ file' = len /\ tail' = t /\ UNCHANGED queued
     \/ UNCHANGED obj
  /\ UNCHANGED <<pc, ncall, cnt, n, jcnt, got, ret, pending, brkSince, brk, bpc, breaks, fault>>

----------------------------------------------------------------------------
(* PcapClose: GetPcap throws PcapCloseException and returns NULL for an    *)
(* address of 0; otherwise pcap_close frees the pcap_t and the object's    *)
(* pointer is replaced by one of address 0.                                *)

\* Seeded fault: the pointer is not reset after pcap_close.
CloseKeepsPointer ==
  IF native = "freed" THEN Fault("double_free")
  ELSE /\ native' = "freed"
       /\ UNCHANGED <<sess, kind, file, tail, queued, brk, bpc, breaks, fault>>

CloseNative ==
  IF native = "freed" THEN Fault("double_free")
  ELSE /\ native' = "freed" /\ sess' = "closed"
       /\ UNCHANGED <<kind, file, tail, queued, brk, bpc, breaks, fault>>

\* Spec 5: the caller serialises concurrent uses of a handle, so thread L
\* never closes while B is inside PcapBreakLoop.
MayClose == bpc = "idle"

PcapClose ==
  /\ Begin("PcapClose") /\ sess # "none" /\ MayClose
  /\ IF sess = "closed"
     THEN /\ pending' = "PcapClose"
          /\ UNCHANGED <<obj, brk, bpc, breaks, fault>>
     ELSE /\ CloseNative /\ pending' = "none"
  /\ UNCHANGED <<pc, ncall, cnt, n, jcnt, got, ret, brkSince>>

----------------------------------------------------------------------------
(* PcapBreakLoop: GetPcap, then pcap_breakloop(pcap) sets p->break_loop.   *)

\* Seeded fault: the request never reaches pcap_breakloop.
RequestBreakLost == /\ brkSince' = (brkSince \/ pc # "idle")
                    /\ UNCHANGED brk

RequestBreak == /\ brk' = TRUE
                /\ brkSince' = (brkSince \/ pc # "idle")

\* Thread L calls PcapBreakLoop outside any loop.
PcapBreakLoop ==
  /\ Begin("PcapBreakLoop") /\ sess # "none"
  /\ IF sess = "closed"
     THEN pending' = "PcapClose" /\ UNCHANGED <<brk, brkSince>>
     ELSE RequestBreak /\ pending' = "none"
  /\ UNCHANGED <<obj, pc, ncall, cnt, n, jcnt, got, ret, bpc, breaks, fault>>

\* Thread B: GetPcap reads the object's address ...
BResolve ==
  /\ bpc = "idle" /\ fault = "none" /\ breaks < MaxBreaks /\ sess # "none"
  /\ breaks' = breaks + 1
  /\ bpc' = IF sess = "open" THEN "resolved" ELSE "idle"
  /\ UNCHANGED <<obj, loopL, brk, fault>>

\* ... and pcap_breakloop writes the flag through the pointer it got.
BBreak ==
  /\ bpc = "resolved" /\ fault = "none"
  /\ IF native # "alive"
     THEN Fault("use_after_free") /\ UNCHANGED loopL
     ELSE /\ RequestBreak /\ bpc' = "idle"
          /\ UNCHANGED <<obj, pc, entry, ncall, cnt, n, jcnt, got, ret, pending, calls, breaks, fault>>

----------------------------------------------------------------------------
(* PcapLoop and PcapDispatch: the null and count checks, GetPcap, then     *)
(* pcap_loop / pcap_dispatch with pcap_callback as the handler.            *)

\* Seeded fault: the count check is dropped.
LoopArgsAny(c) == TRUE

\* CheckArgument(env, (jcnt > 0), "")
LoopArgsValid(c) == c > 0

StartLoop(e, nc, c) ==
  /\ Begin(e) /\ sess # "none"
  /\ jcnt' = c /\ got' = 0 /\ brkSince' = FALSE
  /\ CASE ~LoopArgsValid(c) ->
            pending' = "IllegalArgument" /\ ret' = -1 /\ UNCHANGED <<pc, ncall, cnt, n>>
       [] sess = "closed" ->
            pending' = "PcapClose" /\ ret' = -1 /\ UNCHANGED <<pc, ncall, cnt, n>>
       [] OTHER ->
            /\ pc' = "read" /\ ncall' = nc /\ cnt' = c /\ n' = 0
            /\ pending' = "none" /\ UNCHANGED ret
  /\ UNCHANGED <<obj, brk, bpc, breaks, fault>>

PcapLoop(c) == StartLoop("PcapLoop", "loop", c)

\* Seeded fault: PcapDispatch runs pcap_loop, as PcapLoop does.
PcapDispatchViaLoop(c) == StartLoop("PcapDispatch", "loop", c)

PcapDispatch(c) == StartLoop("PcapDispatch", "dispatch", c)

\* One turn of libpcap's read loop: test break_loop through the pcap_t, then
\* read one record and hand it to pcap_callback.  pcap_callback makes JNI
\* calls (NewObject, SetIntField) before it calls nextPacket.
ReadRecord ==
  /\ pc = "read" /\ fault = "none"
  /\ IF native # "alive"
     THEN Fault("use_after_free") /\ UNCHANGED loopL
     ELSE \E why \in Outcomes :
       CASE why = "record" ->
              IF pending # "none" THEN Fault("jni_pending") /\ UNCHANGED loopL
              ELSE /\ pc' = "handler" /\ Consume
                   /\ UNCHANGED <<sess, native, kind, tail, brk, entry, ncall, cnt, n,
                                  jcnt, got, ret, pending, brkSince, calls, bpc, breaks, fault>>
         [] why = "break" ->
              /\ brk' = (n # 0)
              /\ EndBatch(IF n = 0 THEN -2 ELSE n)
              /\ UNCHANGED <<obj, entry, ncall, jcnt, got, pending, brkSince, calls, bpc, breaks, fault>>
         [] OTHER ->
              /\ EndBatch(IF why = "error" THEN -1 ELSE n)
              /\ UNCHANGED <<obj, brk, entry, ncall, jcnt, got, pending, brkSince, calls, bpc, breaks, fault>>

\* What the Java nextPacket does on thread L before it returns: nothing,
\* PcapBreakLoop or PcapClose on the same Pcap, or throw.
HandlerBody(op) ==
  CASE op = "return" -> UNCHANGED <<obj, brk, brkSince, pending, fault>>
    [] op = "throw"  -> pending' = "Handler" /\ UNCHANGED <<obj, brk, brkSince, fault>>
    [] sess = "closed" -> pending' = "PcapClose" /\ UNCHANGED <<obj, brk, brkSince, fault>>
    [] op = "break"  -> RequestBreak /\ UNCHANGED <<obj, pending, fault>>
    [] OTHER         -> CloseNative /\ UNCHANGED <<brkSince, pending>>

\* pcap_callback: nextPacket runs and returns; libpcap counts the record and
\* ends the batch once n reaches a limited count.
Handler(op) ==
  /\ pc = "handler" /\ fault = "none"
  /\ op = "close" => MayClose
  /\ HandlerBody(op)
  /\ got' = got + 1
  /\ IF Limited /\ n + 1 >= cnt
     THEN EndBatch(n + 1)
     ELSE n' = n + 1 /\ pc' = "read" /\ UNCHANGED <<cnt, ret>>
  /\ UNCHANGED <<entry, ncall, jcnt, calls, bpc, breaks>>

----------------------------------------------------------------------------
(* PcapNext and PcapNextEx: one record through pcap_next (pcap_dispatch    *)
(* with a count of 1) or pcap_next_ex, no Java handler.                    *)

\* pcap_next_ex's code for what was read: an offline end of file is -2.
NextExCode(why) ==
  CASE why = "record"  -> 1
    [] why = "timeout" -> 0
    [] why = "error"   -> -1
    [] OTHER           -> -2

\* PcapNext returns a ByteBuffer (1 here) or NULL (0 here).
NextCode(why) == IF why = "record" THEN 1 ELSE 0

\* Entry e reads one record and returns its code for it to Java.
PullOne(e) ==
  /\ Begin(e) /\ sess # "none"
  /\ jcnt' = 1 /\ brkSince' = FALSE
  /\ IF sess = "closed"
     THEN /\ pending' = "PcapClose" /\ ret' = -1 /\ got' = 0
          /\ UNCHANGED <<obj, brk, fault>>
     ELSE IF native # "alive"
     THEN Fault("use_after_free") /\ UNCHANGED <<got, ret, pending>>
     ELSE \E why \in Outcomes :
            /\ IF why = "record" THEN Consume ELSE UNCHANGED <<file, queued>>
            /\ brk' = (brk /\ why # "break")
            /\ got' = IF why = "record" THEN 1 ELSE 0
            /\ ret' = IF e = "PcapNext" THEN NextCode(why) ELSE NextExCode(why)
            /\ pending' = "none"
            /\ UNCHANGED <<sess, native, kind, tail, fault>>
  /\ UNCHANGED <<pc, ncall, cnt, n, bpc, breaks>>

PcapNext == PullOne("PcapNext")

PcapNextEx == PullOne("PcapNextEx")

\* The network: a frame arrives in the live capture buffer.
Arrive ==
  /\ kind = "live" /\ native = "alive" /\ ~queued /\ fault = "none"
  /\ queued' = TRUE
  /\ UNCHANGED <<sess, native, kind, file, tail, loopL, brk, bpc, breaks, fault>>

----------------------------------------------------------------------------
Init ==
  /\ sess = "none" /\ native = "none" /\ kind = "none"
  /\ file = 0 /\ tail = "eof" /\ queued = FALSE /\ brk = FALSE
  /\ pc = "idle" /\ entry = "none" /\ ncall = "none"
  /\ cnt = 0 /\ n = 0 /\ jcnt = 0 /\ got = 0 /\ ret = 0
  /\ pending = "none" /\ brkSince = FALSE
  /\ bpc = "idle" /\ calls = 0 /\ breaks = 0 /\ fault = "none"

Next ==
  \/ PcapOpenLive \/ PcapOpenOffline \/ PcapClose \/ PcapBreakLoop
  \/ \E c \in Counts : PcapLoop(c) \/ PcapDispatch(c)
  \/ ReadRecord
  \/ \E op \in HandlerOps : Handler(op)
  \/ PcapNext \/ PcapNextEx
  \/ BResolve \/ BBreak
  \/ Arrive

\* libpcap's loop and the handler run on a thread that is inside a JNI call
\* and keeps running; B finishes a PcapBreakLoop it has begun.  Java's own
\* calls, B's decision to call, and the network are not assumed to happen.
Fairness ==
  /\ WF_vars(ReadRecord)
  /\ WF_vars(\E op \in HandlerOps : Handler(op))
  /\ WF_vars(BBreak)

Spec == Init /\ [][Next]_vars /\ Fairness

----------------------------------------------------------------------------
\* No JNI entry point makes libpcap read or write a pcap_t that pcap_close
\* has freed, frees one twice, or calls JNI with a Java exception pending
\* (PcapClose, PcapBreakLoop, PcapLoop, pcap_callback, and PcapNextEx after
\* ByteBuffer.put).
NoNativeFault == fault = "none"

\* A PcapLoop or PcapDispatch call never hands the Java handler more frames
\* than the count it was given, across all of pcap_loop's read batches, and
\* none at all for a count it rejects (CheckArgument jcnt > 0).
CountBound ==
  entry \in {"PcapLoop", "PcapDispatch"} => got <= IF jcnt > 0 THEN jcnt ELSE 0

\* A PcapDispatch call that returns a non-negative value returns the number
\* of frames it delivered to the handler (the result of pcap_dispatch).
DispatchReturnsDelivered ==
  (pc = "idle" /\ entry = "PcapDispatch" /\ ret >= 0) => ret = got

\* A PcapBreakLoop that reaches a running PcapLoop or PcapDispatch, from B
\* or from the handler, makes that call return, even on a silent interface.
BreakTerminates == (pc # "idle" /\ brkSince) ~> (pc = "idle")

\* A PcapLoop or PcapDispatch call reports -2 (broken off) only when some
\* PcapBreakLoop was requested while that call was running (spec 4.3: the
\* break applies to the in-progress loop).
BreakOnlyWhenRequested ==
  (pc = "idle" /\ entry \in {"PcapLoop", "PcapDispatch"} /\ ret = -2) => brkSince

\* PcapLoop that used up its count N returns N, the number of handler
\* invocations (spec 8: a non-negative count equal to the invocations).
LoopReturnsCount ==
  (pc = "idle" /\ entry = "PcapLoop" /\ ret >= 0 /\ got = jcnt /\ jcnt > 0) => ret = got

=============================================================================

---------------------------- MODULE FrameAssembly ----------------------------
(***************************************************************************)
(* internal/av1/rtp/assembler.go: AssembleFrame joins the OBU fragments of *)
(* RTP payloads in two passes.  The first one validates the payloads and   *)
(* finds the size of every OBU, the second copies the bytes behind each    *)
(* OBU header, which may itself be spread over fragments.                  *)
(***************************************************************************)
EXTENDS PacketPlans

\* frameAssembleScan: the raw size of the open OBU, the OBU whose header its
\* first byte starts, and what is known of the finished ones.
ScanStart(s) == [s EXCEPT !.raw = 0]
ScanAdd(s, data) == [s EXCEPT !.raw = @ + Len(data), !.obu = IF s.raw = 0 THEN data[1].obu ELSE @]
ScanFinish(s) ==
  IF s.raw = 0 \/ s.raw < s.header[s.obu] THEN [s EXCEPT !.err = "short"]
  ELSE [s EXCEPT !.infos = Append(@, [obu |-> s.obu, skip |-> s.header[s.obu], payload |-> s.raw - s.header[s.obu]])]

\* Mutant: a header that ends in a later fragment is not skipped there.
WriteAddOnce(s, data) ==
  LET info == s.infos[Len(s.out)]
      start == Least(IF s.seen = 0 THEN info.skip ELSE 0, Len(data))
  IN IF Len(s.out[Len(s.out)]) + Len(data) - start > info.payload THEN [s EXCEPT !.err = "size"]
     ELSE [s EXCEPT !.out[Len(s.out)] = @ \o SubSeq(data, start + 1, Len(data)), !.seen = @ + Len(data)]

\* frameAssembleWrite.addFragment
WriteAdd(s, data) ==
  LET info == s.infos[Len(s.out)]
      start == Least(IF s.seen < info.skip THEN info.skip - s.seen ELSE 0, Len(data))
  IN IF Len(s.out[Len(s.out)]) + Len(data) - start > info.payload THEN [s EXCEPT !.err = "size"]
     ELSE [s EXCEPT !.out[Len(s.out)] = @ \o SubSeq(data, start + 1, Len(data)), !.seen = @ + Len(data)]
WriteStart(s) == [s EXCEPT !.out = Append(@, <<>>), !.seen = 0]
WriteFinish(s) ==
  IF Len(s.out[Len(s.out)]) # s.infos[Len(s.out)].payload THEN [s EXCEPT !.err = "size"] ELSE s

\* What both passes share: checkContinuation at a payload, then startOBU for
\* an element that does not continue one, addFragment for its bytes, and
\* finishOBU unless it continues.  A pass is a record with its name, err,
\* expect (a continuation) and open.
PassElement(s, e) ==
  IF s.err # "" THEN s
  ELSE IF ~e.prev /\ s.open THEN [s EXCEPT !.err = "interrupted"]
  ELSE IF e.prev /\ ~s.open THEN [s EXCEPT !.err = "continuation"]
  ELSE LET scan == s.pass = "scan"
           opened == IF e.prev THEN s ELSE [IF scan THEN ScanStart(s) ELSE WriteStart(s) EXCEPT !.open = TRUE]
           t == IF scan THEN ScanAdd(opened, e.data) ELSE WriteAdd(opened, e.data)
       IN IF t.err # "" \/ e.next THEN t
          ELSE [IF scan THEN ScanFinish(t) ELSE WriteFinish(t) EXCEPT !.open = FALSE]

PassPayload(s, p) ==
  IF s.err # "" THEN s
  ELSE IF p.z # s.expect THEN [s EXCEPT !.err = IF p.z THEN "continuation" ELSE "interrupted"]
  ELSE [Fold(PassElement, s, ElementsFrom(p)) EXCEPT !.expect = p.y]

Pass(s0, payloads) ==
  LET s == Fold(PassPayload, s0, payloads)
  IN IF s.err = "" /\ (s.expect \/ s.open) THEN [s EXCEPT !.err = "interrupted"] ELSE s

\* scanPayloads
Scan(payloads, header) ==
  Pass([pass |-> "scan", err |-> "", expect |-> FALSE, open |-> FALSE,
        header |-> header, raw |-> 0, obu |-> 0, infos |-> <<>>], payloads)

\* writeAssembledFrame
WriteFrame(payloads, infos) ==
  Pass([pass |-> "write", err |-> "", expect |-> FALSE, open |-> FALSE,
        infos |-> infos, seen |-> 0, out |-> <<>>], payloads)

\* AssembleFrame
AssembleFrame(payloads, header) ==
  LET scan == Scan(payloads, header)
      write == WriteFrame(payloads, scan.infos)
  IN IF scan.err # "" THEN [err |-> scan.err, infos |-> <<>>, out |-> <<>>]
     ELSE IF scan.infos = <<>> THEN [err |-> "empty", infos |-> <<>>, out |-> <<>>]
     ELSE [err |-> write.err, infos |-> scan.infos, out |-> write.out]
==============================================================================

------------------------------ MODULE Inliner ------------------------------
(***************************************************************************)
(* The inliner (src/ir/opts/inline.c): a call of a short function that     *)
(* calls nothing becomes a copy of its code, with registers and labels of  *)
(* its own.  Parameters become copies of the arguments, a return a copy of *)
(* its value and a jump to the end.                                        *)
(***************************************************************************)
EXTENDS Integers, Sequences, FiniteSets, SequencesExt

CONSTANT InlineMax   \* INLINE_MAX_INSTRS: the longest function inlined (24)

ASSUME InlineMaxNat == InlineMax \in Nat

Calling == {"call", "in", "out"}
InlInstr(op, dst, src, target) ==
  [op |-> op, dst |-> dst, src1 |-> src, src2 |-> 0, cond |-> 0, target |-> target, imm |-> 0]

(* mark_eligible: short, and without a call.                               *)
Eligible(fn) ==
  Len(fn.code) <= InlineMax /\ \A k \in DOMAIN fn.code : fn.code[k].op \notin Calling

(* The last instructions of code are the arguments, in order.              *)
ArgsOk(code, argc) ==
  /\ argc <= Len(code)
  /\ \A k \in 1..argc : LET i == code[Len(code) - argc + k] IN i.op = "arg" /\ i.target = k

Labelled == {"label", "jmp", "jz", "jnz"}
LabelsOf(code) == {code[k].target : k \in {j \in DOMAIN code : code[j].op \in Labelled}}

(* label_span: where the labels of a function start, and how many may be.  *)
LabelLow(code) == IF LabelsOf(code) = {} THEN 0 ELSE Min(LabelsOf(code))
LabelSpan(code) == IF LabelsOf(code) = {} THEN 0 ELSE Max(LabelsOf(code)) - LabelLow(code) + 1

(* inl_ret: the last return runs into the end.                             *)
InlRet(s, i, last) ==
  (IF i.src1 # 0 /\ s.dst # 0 THEN <<InlInstr("move", s.dst, s.base + i.src1, 0)>> ELSE <<>>)
    \o (IF last THEN <<>> ELSE <<InlInstr("jmp", 0, 0, s.end)>>)

Moved(s, r) == IF r = 0 THEN 0 ELSE s.base + r

(* Mutation: every copy has the labels of the function itself.             *)
RenamedSameLabels(s, i) ==
  [i EXCEPT !.dst = Moved(s, @), !.src1 = Moved(s, @), !.src2 = Moved(s, @), !.cond = Moved(s, @)]

Renamed(s, i) ==
  [i EXCEPT !.dst = Moved(s, @), !.src1 = Moved(s, @), !.src2 = Moved(s, @), !.cond = Moved(s, @),
            !.target = IF i.op \in Labelled THEN s.lbase + @ - s.llo ELSE @]

InlBody(s, i, last) ==
  IF i.op = "ret" THEN InlRet(s, i, last)
  ELSE IF i.op = "param" THEN <<InlInstr("move", s.base + i.dst, s.args[i.target], 0)>>
  ELSE <<Renamed(s, i)>>

(* inl_site: n is the code so far with the registers and labels it uses.   *)
InlSite(n, call, args, fn) ==
  LET last == Len(fn.code)
      end == n.labels + LabelSpan(fn.code) + 1
      s == [base |-> n.regs, dst |-> call.dst, args |-> args,
            lbase |-> n.labels + 1, llo |-> LabelLow(fn.code), end |-> end]
      body == [k \in 1..last |-> InlBody(s, fn.code[k], k = last)]
  IN [code |-> n.code \o FlattenSeq(body) \o <<InlInstr("label", 0, 0, end)>>,
      regs |-> n.regs + fn.regs, labels |-> end]

InlCall(n, call, fn) ==
  LET argc == call.imm
      kept == Len(n.code) - argc
      args == [k \in 1..argc |-> n.code[kept + k].src1]
  IN InlSite([n EXCEPT !.code = SubSeq(@, 1, kept)], call, args, fn)

(* inl_fn: the calls in the code of fn.  The functions inlined are those   *)
(* there were before, fns.                                                 *)
InlFn(fn, fns, labels) ==
  FoldLeft(LAMBDA n, i :
             IF i.op = "call" /\ Eligible(fns[i.target]) /\ ArgsOk(n.code, i.imm)
               THEN InlCall(n, i, fns[i.target])
               ELSE [n EXCEPT !.code = Append(@, i)],
           [code |-> <<>>, regs |-> fn.regs, labels |-> labels], fn.code)

(* count_sites: with none, the program stays as it is.                     *)
Sites(fn, fns) ==
  {k \in DOMAIN fn.code :
     LET i == fn.code[k]
     IN i.op = "call" /\ Eligible(fns[i.target]) /\ ArgsOk(SubSeq(fn.code, 1, k - 1), i.imm)}

(* inline_ir.                                                              *)
InlineIR(fns, labels) ==
  FoldLeft(LAMBDA w, fn : LET n == InlFn(fn, fns, w.labels)
                          IN [fns |-> Append(w.fns, [code |-> n.code, regs |-> n.regs]), labels |-> n.labels],
           [fns |-> <<>>, labels |-> labels], fns)
=============================================================================

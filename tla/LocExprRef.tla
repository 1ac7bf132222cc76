----------------------------- MODULE LocExprRef -----------------------------
(***************************************************************************)
(* What the evaluator promises (spec 4.3, 7 and 8), as a recursive         *)
(* definition: whether printing an expression succeeds, in an attribute    *)
(* context or a CFI one, at an address, at a depth of the call chain.      *)
(* LocExpr's step-by-step interpreter is checked against it.  Recursion    *)
(* stops at the depth cap, so the definition is well founded however the  *)
(* expressions refer to one another.                                       *)
(***************************************************************************)
EXTENDS LocExpr

\* The relaxed mode of spec 4.3: an object file, or --debug.
Relaxed == env.etrel \/ env.debug

\* Spec 4.3: shared base-type decoding needs a base type with an encoding
\* and a byte or a bit size.
RefBase(op) == op.base \in {"byte_size", "bit_size"}

RECURSIVE RefFrom(_, _, _, _, _), RefOp(_, _, _, _)

\* The opcodes of block b from the k-th on print without a hard error.
RefFrom(b, k, a, x, d) ==
    k > Len(Code[b]) \/ (RefOp(Code[b][k], a, x, d) /\ RefFrom(b, k + 1, a, x, d))

\* Opcode op prints without a hard error, with attribute context a (FALSE
\* in CFI), at address x, at depth d of the call chain (spec 8: depth 64
\* succeeds, 65 fails).  Attribute-relative opcodes fail in CFI (spec 3);
\* cross-check mismatches and missing sub-attributes are hard errors
\* (spec 7).
RefOp(op, a, x, d) ==
    /\ d <= MaxDepth
    /\ CASE op.atom = "plain" -> TRUE
         [] op.atom = "push_object_address" -> a
         [] op.atom = "call_frame_cfa" ->
               /\ a
               /\ IF env.cfi /\ op.frame
                  THEN op.ok /\ Code[op.ref] # << >> /\ RefFrom(op.ref, 1, FALSE, x, d + 1)
                  ELSE Relaxed
         [] op.atom = "call" -> a /\ op.ok /\ RefFrom(op.ref, 1, TRUE, x, d + 1)
         [] op.atom = "fbreg" -> a /\ env.fb
         [] op.atom = "implicit_value" -> op.ok /\ op.agree
         [] op.atom \in {"implicit_pointer", "variable_value"} ->
               /\ a /\ op.ok /\ op.agree
               /\ \/ op.const
                  \/ Locs(op.list, x) = 0
                  \/ Locs(op.list, x) = 1 /\ RefFrom(Located(op.list, x), 1, TRUE, x, d + 1)
         [] op.atom = "entry_value" -> op.ok /\ RefFrom(op.ref, 1, a, x, d + 1)
         [] op.atom = "parameter_ref" -> op.ok /\ op.agree /\ op.formal
         [] op.atom = "convert" -> op.off = 0 \/ (op.ok /\ op.agree /\ RefBase(op))
         [] op.atom \in {"typed", "xderef_type"} -> op.ok /\ op.agree /\ RefBase(op)
         [] op.atom = "const_type" -> op.ok /\ op.agree /\ RefBase(op) /\ op.fits
         [] op.atom = "indexed" -> op.ok
         [] OTHER -> FALSE

\* The interpreter keeps the promise: a run of print_expr that ends has
\* printed the expression exactly when spec 4.3, 7 and 8 say it must
\* (the depth cap, CFI contexts, the location at the current address,
\* cross-checks and base types included).
SpecAgreement ==
    status # "running" => (status = "ok" <=> RefFrom(env.top, 1, TRUE, env.addr, 0))

=============================================================================

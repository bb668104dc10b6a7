----------------------------- MODULE MCLiteBatch -----------------------------
(***************************************************************************)
(* The models and requests with which LiteBatch is checked: two types of   *)
(* input, alone and together, a model whose output does not grow with its  *)
(* inputs, models that create() refuses, and requests of one or two rows,  *)
(* of which some have the wrong shape or the wrong content.                *)
(***************************************************************************)
EXTENDS LiteBatch

Lite(type, rows) == [type |-> type, dims |-> <<rows, 2>>]
LiteOut == [out |-> Lite("complex", 1)]
LiteDeclaredOut == [out |-> <<"complex", <<2>>>>]
LiteModel(inputs, fixed) ==
  [inputs |-> inputs, outputs |-> LiteOut, fixed |-> fixed,
   declaredIn |-> Signature(inputs), declaredOut |-> LiteDeclaredOut]

MCLiteModels ==
  {LiteModel([a |-> Lite("complex", 1)], f) : f \in BOOLEAN}
  \union {LiteModel([a |-> Lite("string", 1)], FALSE),
          LiteModel([a |-> Lite("complex", 1), b |-> Lite("string", 1)], FALSE),
          LiteModel([a |-> Lite("complex", 1), b |-> Lite("string", 2)], FALSE),
          [LiteModel([a |-> Lite("complex", 1)], FALSE) EXCEPT !.declaredOut = [out |-> <<"complex", <<3>>>>],
                                                             !.outputs = LiteOut]}

LiteSent(type, rows, raw, field) == [type |-> type, dims |-> <<rows, 2>>, raw |-> raw, field |-> field]

MCLiteRequests ==
  {[rows |-> n, wants |-> w, inputs |-> [a |-> LiteSent(ty, n, 2 * n, 0)]] :
      n \in 1 .. 2, w \in BOOLEAN, ty \in {"complex", "string"}}
  \union {[rows |-> n, wants |-> TRUE, inputs |-> [a |-> LiteSent("complex", n, 0, f), b |-> LiteSent("string", n, 2 * n, 0)]] :
            n \in 1 .. 2, f \in {2, 5}}
  \union {[rows |-> 2, wants |-> TRUE, inputs |-> [a |-> LiteSent("complex", 1, 2, 0)]]}
=============================================================================

----------------------------- MODULE MCReceipts -----------------------------
(***************************************************************************)
(* Plans for Receipts: the questions of a secure build (a private package, *)
(* then a public one), and of a combined one over a public shadow.         *)
(***************************************************************************)
EXTENDS Receipts

Question3(source, path, name) == [source |-> source, path |-> path, name |-> name]

MCRegistries == <<"public", "shadow", "private">>

Secure ==
    <<Question3("private", "metadata", "policy"), Question3("private", "artifact", "policy"),
      Question3("public", "metadata", "format")>>

MissingPackage == <<Question3("private", "metadata", "absent")>>

CombinedPool ==
    <<Question3("shadow", "metadata", "policy"), Question3("private", "metadata", "policy")>>

MCPlans == {Secure, MissingPackage, CombinedPool}

\* For two runs at once: two registries and plans of at most two questions.
TwoRegistries == <<"shadow", "private">>

ShortPlans == {SubSeq(Secure, 1, 2), MissingPackage, CombinedPool}

MCCarried == {<<"private", "policy">>, <<"shadow", "policy">>, <<"public", "format">>}
=============================================================================

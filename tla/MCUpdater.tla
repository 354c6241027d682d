------------------------------ MODULE MCUpdater ------------------------------
(* Checkouts whose texts are the ones the patches look for; with a second and *)
(* a third use, which the patches replace or pass over; with a drifted         *)
(* definition or use; renamed upstream; with a suffix list that has changed,   *)
(* or has a guard of its own; and without the files.  Trees of generated files *)
(* in bin, in genfiles, in both and in neither.                                *)
EXTENDS Updater

MCNameFiles == {"resolver_query.cc", "analytic_op.cc"}
MCSuffixFile == "public_suffix_list_data.h"
MCRequired == {"resolved_ast.h", "internal_error_location.pb.h"}
MCPatchOrder == <<MCSuffixFile, "resolver_query.cc", "analytic_op.cc">>

Old(texts) == [i \in DOMAIN texts |-> Place(texts[i], FALSE)]
New(texts) == [i \in DOMAIN texts |-> Place(texts[i], TRUE)]

Checkout(resolver, op, list) ==
  [f \in MCNameFiles \cup {MCSuffixFile} |->
    CASE f = MCSuffixFile -> list [] f = "resolver_query.cc" -> resolver [] OTHER -> op]

MCUpstreams ==
  {Checkout(Old(<<"definition", "use", "use">>), Absent, SuffixList(0, 0, FALSE, FALSE, TRUE, FALSE)),
   Checkout(Old(<<"definition", "use", "use", "alias">>), Absent, SuffixList(1, 1, FALSE, FALSE, FALSE, TRUE)),
   Checkout(New(<<"definition", "use">>), Absent, SuffixList(1, 1, TRUE, FALSE, TRUE, FALSE)),
   Checkout(Old(<<"drifted", "alias">>), Absent, SuffixList(0, 0, FALSE, FALSE, FALSE, FALSE)),
   Checkout(Absent, Old(<<"use", "definition", "definition", "use", "drifted">>), Absent)}

ASSUME AgreeingCheckouts == CheckoutsAgree

Files(h, pb) == [f \in MCRequired |-> IF f = "resolved_ast.h" THEN h ELSE pb]

MCExports ==
  {[bin |-> Files(1, 1), genfiles |-> NoDir],
   [bin |-> Files(1, Absent), genfiles |-> Files(2, 2)],
   [bin |-> Files(Absent, Absent), genfiles |-> NoTree],
   [bin |-> NoTree, genfiles |-> NoDir],
   [bin |-> NoDir, genfiles |-> NoDir]}
=============================================================================

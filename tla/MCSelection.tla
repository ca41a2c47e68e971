------------------------------- MODULE MCSelection ------------------------------
(* An instance of CategorySelection: three categories with core keywords that   *)
(* contain each other and one that both have, one Arabic prefix, and the        *)
(* thresholds of ClassificationPolicy.                                          *)
EXTENDS CategorySelection, TLC

CONSTANTS data, web, ops, excel, anExcel, sheet, react, report, unpaid

MCWords == {excel, anExcel, sheet, react, report, unpaid}
MCWidth == [w \in MCWords |-> IF w = anExcel THEN 7 ELSE 5]
MCClitics == [w \in MCWords |-> IF w = excel THEN <<anExcel>> ELSE << >>]
MCOrder == <<data, web, ops>>

Item(keyword, weight) == [keyword |-> keyword, weight |-> weight]
Policy == [minSupport |-> 12, downgrade |-> 14, loneSupport |-> 5, titleAgainst |-> 10]

MCProfile ==
  data :> (Policy @@ [core |-> <<Item(<<excel, sheet>>, 1), Item(<<excel>>, 1), Item(<<sheet>>, 1)>>,
             supporting |-> <<Item(<<report>>, 6)>>,
             negative |-> <<Item(<<react>>, 1)>>, against |-> << >>,
             hard |-> {<<unpaid>>}])
  @@ web :> (Policy @@ [core |-> <<Item(<<react>>, 1), Item(<<sheet>>, 1)>>,
             supporting |-> << >>,
             negative |-> << >>, against |-> <<Item(<<excel>>, 11), Item(<<report>>, 6)>>,
             hard |-> {}])
  @@ ops :> (Policy @@ [core |-> <<Item(<<report, react>>, 1), Item(<<report>>, 1)>>,
             supporting |-> <<Item(<<sheet>>, 13), Item(<<excel>>, 5)>>,
             negative |-> <<Item(<<unpaid>>, 1)>>, against |-> << >>,
             hard |-> {}])

Texts(n) == UNION {[1..k -> MCWords] : k \in 0..n}
MCTitles == Texts(1)
MCDescriptions == Texts(4)
=============================================================================

----------------------------- MODULE MCExecutor -----------------------------
EXTENDS Executor

MCRegion ==
  [a \in Word |-> CASE a \div 4 = 0 -> "rom" [] a \div 4 = 1 -> "paged"
                    [] a \div 4 = 2 -> "ram" [] OTHER -> "vacant"]

MCImage == [a \in Word |-> IF a \in {1, 2} THEN 1 ELSE 0]

MCOperands ==
  {[rd |-> 1, rs1 |-> 1, rs2 |-> 2], [rd |-> 2, rs1 |-> 1, rs2 |-> 2], [rd |-> 0, rs1 |-> 2, rs2 |-> 1]}

MCImms == {-4, 3}
=============================================================================

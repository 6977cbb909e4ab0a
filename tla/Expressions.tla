----------------------------- MODULE Expressions ------------------------------
(***************************************************************************)
(* The calculators of C++/Datastruct: an expression of one-digit numbers is *)
(* turned into postfix form (InfixToPostfix.c) and evaluated on a stack     *)
(* (PostCalculator.c), or made a tree and evaluated there                   *)
(* (ExpressionTree.c, BinaryTree2.c). The stack of ListBaseStack.c is a     *)
(* sequence, its head first.                                               *)
(***************************************************************************)
EXTENDS Integers, Sequences, SequencesExt

CONSTANTS Digits,     \* the digits typed, a subset of "0" .. "9"
          MaxTokens

VARIABLES exp,        \* the expression typed so far
          depth,      \* parentheses open
          operand,    \* a number or a "(" comes next
          clean       \* the memory that convToRPNEXP got ends its result


Number(d) == CHOOSE v \in 0..9 : ToString(v) = d
Operators == {"+", "-", "*", "/"}

\* C division goes towards zero.
Quotient(a, b) == LET q == (IF a < 0 THEN -a ELSE a) \div (IF b < 0 THEN -b ELSE b)
                  IN  IF (a < 0) = (b < 0) THEN q ELSE -q
Apply(op, a, b) == CASE op = "+" -> a + b [] op = "-" -> a - b
                     [] op = "*" -> a * b [] op = "/" -> Quotient(a, b)
\* An int kept in a signed char.
Char(v) == ((v + 128) % 256) - 128

-----------------------------------------------------------------------------
(* InfixToPostfix.c *)

GetOpPrec(op) == IF op \in {"*", "/"} THEN 5 ELSE IF op \in {"+", "-"} THEN 3 ELSE 1

\* WhoPrecOp(op1, op2) >= 0
WhoPrecOp(op1, op2) == GetOpPrec(op1) >= GetOpPrec(op2)

\* One token: the stack of operators, and what was written.
Token(s, tok) ==
    LET Leaves(i) == IF tok = ")" THEN s.stack[i] # "("
                     ELSE WhoPrecOp(s.stack[i], tok)
        popped == CHOOSE k \in 0..Len(s.stack) :
                    /\ \A i \in 1..k : Leaves(i)
                    /\ k < Len(s.stack) => ~Leaves(k + 1)
        rest == SubSeq(s.stack, popped + 1, Len(s.stack))
        written == s.result \o SubSeq(s.stack, 1, popped)
    IN  CASE tok \in Digits -> [s EXCEPT !.result = Append(@, tok)]
          [] tok = "(" -> [s EXCEPT !.stack = <<tok>> \o @]
          [] tok = ")" -> [stack |-> Tail(rest), result |-> written]
          [] OTHER -> [stack |-> <<tok>> \o rest, result |-> written]

\* The result is copied as a string, but nothing ends it: what the memory held may follow.
ConvToRPNEXP(e) ==
    LET s == FoldLeft(Token, [stack |-> <<>>, result |-> <<>>], e)
    IN  s.result \o s.stack \o (IF clean THEN <<>> ELSE <<"junk">>)

-----------------------------------------------------------------------------
(* PostCalculator.c: operands come off the stack into chars *)

Operate(s, tok) ==
    IF s.failed \/ tok \in Digits
    THEN [s EXCEPT !.stack = IF s.failed THEN @ ELSE <<Number(tok)>> \o @]
    ELSE IF Len(s.stack) < 2 THEN [s EXCEPT !.failed = TRUE]
    ELSE LET op2 == Char(s.stack[1])
             op1 == Char(s.stack[2])
             rest == SubSeq(s.stack, 3, Len(s.stack))
         IN  IF tok = "/" /\ op2 = 0 THEN [s EXCEPT !.failed = TRUE]
             ELSE [s EXCEPT !.stack = IF tok \in Operators THEN <<Apply(tok, op1, op2)>> \o rest
                                      ELSE rest]

\* failed: the stack was empty, or a division by zero ends the program.
EvalRPNEXP(rpn) == FoldLeft(Operate, [stack |-> <<>>, failed |-> FALSE], rpn)

-----------------------------------------------------------------------------
(* ExpressionTree.c, BinaryTree2.c *)

NoTree == <<>>
Plant(stack, tok) ==
    IF tok \in Digits THEN <<[data |-> tok, left |-> NoTree, right |-> NoTree]>> \o stack
    ELSE <<[data |-> tok, left |-> stack[2], right |-> stack[1]]>>
           \o SubSeq(stack, 3, Len(stack))
MakeExpTree(rpn) == Head(FoldLeft(Plant, <<>>, rpn))

RECURSIVE EvaluateExpTree(_), InorderTraverse(_), Value(_)

\* The value, and whether no division by zero was met.
EvaluateExpTree(bt) ==
    IF bt.left = NoTree /\ bt.right = NoTree THEN [v |-> Number(bt.data), ok |-> TRUE]
    ELSE LET op1 == EvaluateExpTree(bt.left)
             op2 == EvaluateExpTree(bt.right)
         IN  IF ~op1.ok \/ ~op2.ok \/ (bt.data = "/" /\ op2.v = 0) THEN [v |-> 0, ok |-> FALSE]
             ELSE [v |-> Apply(bt.data, op1.v, op2.v), ok |-> TRUE]

InorderTraverse(bt) ==
    IF bt = NoTree THEN <<>>
    ELSE InorderTraverse(bt.left) \o <<bt.data>> \o InorderTraverse(bt.right)

-----------------------------------------------------------------------------
ExpInit == exp = <<>> /\ depth = 0 /\ operand = TRUE /\ clean \in BOOLEAN

TypeToken(tok) ==
    /\ Len(exp) < MaxTokens
    /\ exp' = Append(exp, tok)
    /\ CASE tok \in Digits -> operand /\ operand' = FALSE /\ UNCHANGED depth
         [] tok \in Operators -> ~operand /\ operand' = TRUE /\ UNCHANGED depth
         [] tok = "(" -> operand /\ depth' = depth + 1 /\ UNCHANGED operand
         [] tok = ")" -> ~operand /\ depth > 0 /\ depth' = depth - 1 /\ UNCHANGED operand
    /\ UNCHANGED clean

ExpNext == \E tok \in Digits \cup Operators \cup {"(", ")"} : TypeToken(tok)

-----------------------------------------------------------------------------
(* What an expression means, read from the grammar and not from the stack.  *)

\* The last operator of one of the ranks outside all parentheses, 0 when there is none.
SplitAt(e, ops) ==
    LET Open(i) == Len(SelectSeq(SubSeq(e, 1, i), LAMBDA t : t = "("))
                     - Len(SelectSeq(SubSeq(e, 1, i), LAMBDA t : t = ")"))
        at == {i \in 1..Len(e) : e[i] \in ops /\ Open(i) = 0}
    IN  IF at = {} THEN 0 ELSE CHOOSE i \in at : \A j \in at : j <= i

\* The value, no division by zero on the way, and every operand a signed char.
Value(e) ==
    LET i == IF SplitAt(e, {"+", "-"}) # 0 THEN SplitAt(e, {"+", "-"})
             ELSE SplitAt(e, {"*", "/"})
    IN  IF Len(e) = 1 THEN [v |-> Number(e[1]), ok |-> TRUE, small |-> TRUE]
        ELSE IF i = 0 THEN Value(SubSeq(e, 2, Len(e) - 1))
        ELSE LET a == Value(SubSeq(e, 1, i - 1))
                 b == Value(SubSeq(e, i + 1, Len(e)))
                 ok == a.ok /\ b.ok /\ ~(e[i] = "/" /\ b.v = 0)
             IN  [v |-> IF ok THEN Apply(e[i], a.v, b.v) ELSE 0, ok |-> ok,
                  small |-> a.small /\ b.small /\ {a.v, b.v} \subseteq -128..127]

\* Every complete expression means the same by the grammar, on the tree, and on the stack as
\* long as no operand outgrows the char it is popped into; division by zero is the only
\* failure; and the tree still reads, left to right, as it was typed. This holds where the
\* memory that convToRPNEXP got happens to end its result.
ExpressionsAgree ==
    clean /\ ~operand /\ depth = 0 =>
        LET rpn == ConvToRPNEXP(exp)
            stack == EvalRPNEXP(rpn)
            bt == MakeExpTree(rpn)
            value == Value(exp)
        IN  /\ EvaluateExpTree(bt) = [v |-> value.v, ok |-> value.ok]
            /\ value.small =>
                 /\ stack.failed <=> ~value.ok
                 /\ value.ok => stack.stack = <<value.v>>
            /\ InorderTraverse(bt) = SelectSeq(exp, LAMBDA t : t \notin {"(", ")"})
===============================================================================

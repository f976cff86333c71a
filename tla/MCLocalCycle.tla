------------------------------ MODULE MCLocalCycle ------------------------------
EXTENDS LocalCycle

\* Two issues: a label and a comment that follows it, and an @agent comment.
GestureDef == {<<1, 1>>, <<1, 2>>, <<2, 1>>}
LabelDef == {<<1, 1>>}
=============================================================================

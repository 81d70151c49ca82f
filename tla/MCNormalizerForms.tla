-------------------------- MODULE MCNormalizerForms --------------------------
(* Every two forms side by side, every short text over a small alphabet,  *)
(* and three numbers joined by every two signs.                            *)
EXTENDS NormalizerForms

Five == {Num(<<5>>), Num(<<3, 0>>), Num(<<2, 8, 0, 1, 3>>)}

Joints == {Sign(c) : c \in {"/", "-", ":", ".", ",", " ", "%", "€", "@"}}

Alphabet == Five \cup Joints \cup {Sign("#"), Word("x"), Word("pm"), Word("euros"), Word("dr")}

(* Two runs of digits in a row would be one.                               *)
Short == {t \in UNION {[1..n -> Alphabet] : n \in 1..3} :
            \A i \in 2..Len(t) : ~(t[i - 1] \in Five /\ t[i] \in Five)}

Chains == {<<a, j, b, k, c>> : a \in Five, j \in Joints, b \in Five, k \in Joints, c \in Five}

MCTexts == FormTexts \cup Short \cup Chains

MCExclusions == {Kinds, {}}
=============================================================================

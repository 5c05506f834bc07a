---------------------------- MODULE MCPageParts ----------------------------
\* Instances of PageParts for TLC.
EXTENDS PageParts, TLC

CONSTANTS f1, f2, manager, b1, b2

Option(id, kind, confirm) == [id |-> id, kind |-> kind, confirm |-> confirm]

once == Option("once", "allow-once", FALSE)
always == Option("always", "allow-always", TRUE)
reject == Option("reject", "reject-once", FALSE)
custom == Option("custom", "_custom", FALSE)

\* None at all, none the kit knows, one that is confirmed without a refusal,
\* and the same beside another and a refusal.
Lists == {{}, {custom}, {always, custom}, {once, always, reject}}

\* Two users of whom one is a manager, and two documents of which one may have
\* to be uploaded.
OneManager == 1 :> {manager} @@ 2 :> {}
OneOrBoth == {{1}, {1, 2}}

\* Characters in the order of their codes: a blank, a sign, a digit, a letter,
\* two Thai consonants, a vowel, a tone and another mark above a consonant.
OfThai == 4..8
Texts == UNION {[1..n -> OfThai] : n \in 0..5} \cup
         UNION {[1..n -> 0..8] : n \in 2..3}

FileOfWords == {<<4>>, <<4, 5>>, <<4, 5, 5>>, <<5, 6, 4>>, <<6, 5>>}
OtherWords == {{<<5>>, <<4, 5>>}}
ThaiRule0 == <<6, 4, 8>>
ThaiParts == {<<4, 6>>, <<4, 7>>, <<4, 4, 8>>}
=============================================================================

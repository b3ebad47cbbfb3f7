--------------------------- MODULE MCTriggerSync ---------------------------
(* The instance of TriggerSync that TLC checks. *)
EXTENDS TriggerSync

CONSTANTS nightly, hourly, daily, fast, paid, o1, o2

TwoProcs == 1..2
TwoCalls == 1..2

\* A named trigger (its key stays when its pattern changes) and an event; the
\* name on a new pattern and a second timer; positions swapped.
Named(r) == [slug |-> nightly, repeat |-> r]
Hour     == [slug |-> hourly, repeat |-> fast]

First  == <<Named(daily), paid>>
Second == <<Named(fast), Hour>>
Third  == <<NoTrigger, Named(daily)>>

TwoIds     == 1..2
TwoSlugs   == {nightly, hourly}
TwoRepeats == {daily, fast}
OneEvent   == {paid}
TwoLists   == {First, Second}
ThreeLists == {First, Second, Third}
TwoOptions == {o1, o2}
Releases   == {<<First, o1>>, <<Second, o1>>}
Changes    == {<<Undefined, First>>, <<Undefined, Second>>,
               <<o2, Undefined>>, <<o2, Second>>}
=============================================================================

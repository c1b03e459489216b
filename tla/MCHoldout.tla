------------------------------ MODULE MCHoldout ------------------------------
\* Hold-out results for small instances: eleven snapshots over three languages.
\* With a tolerance of 1 and a budget of 2 they hold every case the gates tell
\* apart: creeping one tolerance at a time past the budget (w3, w4, w5), trading
\* one language away for a better mean (w7), an equal mean with one language much
\* better (w1, w2, w10), an improvement on all (w6) and the two collapses (w8, w9).
EXTENDS Integers

CONSTANTS w0, w1, w2, w3, w4, w5, w6, w7, w8, w9, w10

AllWeights == {w0, w1, w2, w3, w4, w5, w6, w7, w8, w9, w10}

ThreeLangs == {"fa", "en", "py"}

Losses(fa, en, py) == [l \in ThreeLangs |-> CASE l = "fa" -> fa
                                              [] l = "en" -> en
                                              [] l = "py" -> py]

AllLangLoss ==
    [w \in AllWeights |->
        CASE w = w0 -> Losses(6, 6, 6)
          [] w = w1 -> Losses(7, 4, 7)
          [] w = w2 -> Losses(8, 2, 8)
          [] w = w3 -> Losses(7, 7, 7)
          [] w = w4 -> Losses(8, 8, 8)
          [] w = w5 -> Losses(9, 9, 9)
          [] w = w6 -> Losses(3, 3, 3)
          [] w = w7 -> Losses(2, 8, 2)
          [] w = w8 -> Losses(5, 5, 5)
          [] w = w9 -> Losses(5, 5, 5)
          [] w = w10 -> Losses(9, 1, 8)]

\* The hold-out batches are spread evenly over the languages.
AllHoldLoss ==
    [w \in AllWeights |->
        (AllLangLoss[w]["fa"] + AllLangLoss[w]["en"] + AllLangLoss[w]["py"]) \div 3]

\* The start and one improvement; the start and one snapshot no gate lets pass.
BetterWeights  == {w0, w6}
BetterHoldLoss == [w \in BetterWeights |-> AllHoldLoss[w]]
BetterLangLoss == [w \in BetterWeights |-> AllLangLoss[w]]
WorseWeights   == {w0, w5}
WorseHoldLoss  == [w \in WorseWeights |-> AllHoldLoss[w]]
WorseLangLoss  == [w \in WorseWeights |-> AllLangLoss[w]]

TwoAlphas == <<2, 1>>
OneAlpha  == <<1>>
=============================================================================

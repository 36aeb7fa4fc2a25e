------------------------ MODULE MCTypeormApplication -----------------------
EXTENDS TypeormApplication, TLC
CONSTANTS cronA, cronB, pulse, once, s1, s2, dsm, p1, p2, n1, a, b
MCJob == {cronA, cronB, pulse, once}
MCKey == cronA :> "cron x" @@ cronB :> "cron x" @@ pulse :> "interval x" @@ once :> "timeout x"
Opens(name, how) == [name |-> name, opens |-> how]
MCOptionLists ==
    {<<Opens(a, "here"), Opens(b, "later")>>, <<Opens(a, "factory"), Opens(a, "here")>>,
     <<Opens(a, "here")>>}
=============================================================================

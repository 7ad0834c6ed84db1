---------------------------- MODULE MCFrontEnd ----------------------------
(* Instances of FrontEnd for TLC. *)
EXTENDS FrontEnd, TLC

\* The objects are interchangeable.
ValueSymmetry == Permutations(Values)

MCConfigurations == {{0, 1}, {0, 2}, {2, 3}}

\* The first prefix selects the second key only, the second one both.
MCSelected == [p \in 1 .. 2 |-> IF p = 1 THEN {2} ELSE {1, 2}]

Plain ==
    [header |-> "fine", secret |-> "s", known |-> "s", dated |-> "amz",
     hash |-> TRUE, region |-> "us-east-1", skew |-> 0,
     method |-> "GET", path |-> "bucket", query |-> <<>>]

\* LIST with every kind of parameter; name 4 is one that the server ignores.
Lists ==
    {[Plain EXCEPT !.query = q] :
        q \in {<<>>,
               << <<1, 2>>, <<2, 0>> >>,
               << <<2, 1>>, <<3, 1>> >>,
               << <<2, 2>> >>,
               << <<2, -1>> >>,
               << <<2, 9>> >>,
               << <<2, 1>>, <<2, 2>> >>,
               << <<4, 2>>, <<4, 1>>, <<3, 2>> >>}}

\* The other operations, on every path.
Others ==
    {[Plain EXCEPT !.method = m, !.path = p] :
        m \in {"GET", "HEAD", "PUT", "DELETE", "POST"},
        p \in {"object", "bucket", "elsewhere"}}

Read == [Plain EXCEPT !.path = "object"]

\* What clients get wrong, one thing at a time.
Wrong ==
    {[Read EXCEPT !.header = "missing"],
     [Read EXCEPT !.header = "malformed"],
     [Read EXCEPT !.known = Nobody],
     [Read EXCEPT !.secret = "t"],
     [Read EXCEPT !.dated = "date"],
     [Read EXCEPT !.dated = "none"],
     [Read EXCEPT !.hash = FALSE],
     [Read EXCEPT !.region = "eu-west-1"],
     [Read EXCEPT !.skew = 2],
     [Read EXCEPT !.skew = 5],
     [Read EXCEPT !.skew = -5]}

MCRequests == Lists \cup Others \cup Wrong

=============================================================================

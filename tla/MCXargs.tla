------------------------------ MODULE MCXargs -------------------------------
(* Up to four items: short and long arguments on one line or on several, the    *)
(* string of -E and an open quote at the end; every mix of -n, -L, -P, -x, -p.  *)
EXTENDS Xargs

Arg(len, nl) == [kind |-> "arg", len |-> len, nl |-> nl]

ArgSeqs(n) == [1 .. n -> {Arg(1, TRUE), Arg(1, FALSE), Arg(3, FALSE)}]

Short == {Arg(1, TRUE), Arg(1, FALSE)}

Last == {[kind |-> "eofstr", len |-> 1, nl |-> FALSE],
         [kind |-> "bad", len |-> 1, nl |-> FALSE]}

MCInputs ==
  UNION {ArgSeqs(n) : n \in 0 .. 3} \cup [1 .. 4 -> Short]
    \cup {Append(s, e) : s \in ArgSeqs(2), e \in Last}
    \cup {<<Arg(1, TRUE), e, Arg(1, TRUE)>> : e \in Last}

MCOptions == [n : {0, 2}, L : {0, 1, 2}, P : {1, 2}, s : {7, 20}, x : BOOLEAN,
              p : {FALSE}]
             \cup [n : {0}, L : {0, 1}, P : {2}, s : {5}, x : {FALSE}, p : {FALSE}]
             \cup [n : {1}, L : {0}, P : {3}, s : {20}, x : {FALSE}, p : {TRUE}]
=============================================================================

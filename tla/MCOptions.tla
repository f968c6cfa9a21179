----------------------------- MODULE MCOptions -----------------------------
(* Command lines of every class of option, in spellings that matter.       *)
EXTENDS Options

Opt(k, f, v) == [key |-> k, form |-> f, val |-> v]

MCWords ==
    {Opt("u", "short", ""), Opt("u", "long=", "a"), Opt("p", "short+", "b"),
     Opt("p", "short", ""), Opt("n", "long=", "dns"), Opt("s", "short+", "srv"),
     Opt("s", "long", ""), Opt("T", "short=", "bad"), Opt("D", "short", ""),
     Opt("o", "long", ""), Opt("l", "short", ""),
     Opt("", "plain", "dns"), Opt("", "plain", ""), Opt("", "plain", "-"),
     Opt("", "help", "")}

=============================================================================

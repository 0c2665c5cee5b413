--------------------------- MODULE MCSharedProject ---------------------------
(***************************************************************************)
(* Names cut to 7 characters instead of 62, with prefixes that are shorter *)
(* in proportion.  The prefix of a backend service is longer than that of  *)
(* a url map, and one prefix begins another one, as in the code.           *)
(***************************************************************************)
EXTENDS SharedProject, TLC

MCKinds == {"be", "um", "fw", "fws", "fr"}
MCPrefix == "be" :> <<"b", "1">> @@ "um" :> <<"u">>
            @@ "fw" :> <<"r">> @@ "fws" :> <<"r", "s">> @@ "fr" :> <<"f">>
MCTypes == "be" :> "backend" @@ "um" :> "urlmap"
           @@ "fw" :> "rule" @@ "fws" :> "rule" @@ "fr" :> "firewall"

Exact == <<"x", "y", "-">>               \* fits, with nothing to spare, ends in a dash
Dashed == <<"x", "y", "-", "z">>         \* one too many for a backend service
Longer == <<"x", "y", "-", "y", "z">>    \* too long for all

\* The commands take an empty name too.
FourNames == {<<>>, Exact, Dashed, Longer}
=============================================================================

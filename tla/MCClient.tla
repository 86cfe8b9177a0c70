------------------------------ MODULE MCClient ------------------------------
(* Model values and bounds for the runs of KKClient.                       *)
EXTENDS KKClient, TLC

CONSTANTS me, you, us, e1, e2, e3, p1, p2, a1, a2, x, y, z

X == Name(<<x>>, 0)
Y == Name(<<x, y>>, 0)
Mine == Doc(me, X)
Yours == Doc(you, Y)
Theirs == Doc(you, X)

Row(u, n, d) == [user |-> u, name |-> n, doc |-> d]
TheDB ==
  [accounts |-> {Account(me, e1, p1), Account(you, e2, p2)},
   rows |-> {Row(me, X, Mine), Row(me, Y, Yours), Row(you, Y, Yours), Row(you, X, Theirs)},
   docs |-> {Mine, Yours, Theirs}, alias |-> (me :> a1) @@ (you :> a1)]
TheLogins == {[user |-> me, password |-> p1], [user |-> me, password |-> p2],
              [user |-> us, password |-> p1]}
TheSignups == {Account(me, e3, p1), Account(us, e1, p1), Account(us, e3, p1)}
TheTitles == {X, Name(<<z>>, 0), Invalid}

\* What is possible at most in a behaviour: how often each thing happens.
Idle == [d \in Deeds |-> 0]
In == [Idle EXCEPT !["login"] = 1, !["pick"] = 1, !["open"] = 1]
Switching == [In EXCEPT !["pick"] = 2, !["open"] = 2, !["menu"] = 1, !["close"] = 1,
                        !["edit"] = 1, !["peer"] = 1, !["leave"] = 1]
Editing == [In EXCEPT !["edit"] = 1, !["illegal"] = 1, !["say"] = 1, !["close"] = 1,
                      !["menu"] = 1, !["lose"] = 1, !["drop"] = 1]
Again == [In EXCEPT !["login"] = 2, !["pick"] = 2, !["open"] = 2, !["close"] = 1,
                    !["peer"] = 1, !["slow"] = 1, !["lose"] = 1]
Profile == [In EXCEPT !["profile"] = 2, !["menu"] = 1, !["delete"] = 1, !["fail"] = 1,
                      !["leave"] = 1]
Creating == [Idle EXCEPT !["login"] = 2, !["signup"] = 2, !["fail"] = 1, !["leave"] = 1]
Refused == [In EXCEPT !["pick"] = 2, !["open"] = 2, !["refuse"] = 1, !["fail"] = 1,
                      !["close"] = 1, !["slow"] = 1]
Picking == [In EXCEPT !["pick"] = 3, !["delete"] = 1, !["fail"] = 1]
Numbering == [In EXCEPT !["pick"] = 2, !["open"] = 2, !["close"] = 1, !["delete"] = 1]
Leaving == [In EXCEPT !["menu"] = 2, !["leave"] = 1, !["illegal"] = 1, !["edit"] = 1,
                      !["say"] = 1]
Clearing == [In EXCEPT !["menu"] = 2, !["leave"] = 1, !["profile"] = 1, !["fail"] = 1,
                       !["delete"] = 1]
Returning == [In EXCEPT !["login"] = 2, !["pick"] = 2, !["open"] = 2, !["profile"] = 1,
                        !["drop"] = 1, !["fail"] = 1]
ThePlans ==
  {Switching, Editing, Again, Profile, Creating, Refused, Picking, Numbering, Leaving,
   Clearing, Returning}
=============================================================================

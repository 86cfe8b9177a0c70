----------------------------- MODULE KKAccounts -----------------------------
(***************************************************************************)
(* The accounts: the USERS table and what KKDataBase does to it.  Every    *)
(* function opens the database anew; an error of a query itself is not     *)
(* noticed, for QSqlQuery reports it without an exception.                 *)
(***************************************************************************)
CONSTANTS Nobody    \* the user of a session that has not logged in

Account(user, email, password) == [user |-> user, email |-> email, password |-> password]

\* The calls of signupUser that may fail: the two checks and the insertion
\* find the database closed, or the insertion itself fails.
SignupCalls == {"username", "email", "open", "exec"}

HasUsername(accounts, u) == \E a \in accounts : a.user = u
HasEmail(accounts, e) == \E a \in accounts : a.email = e

\* INSERT INTO USERS, whose USERNAME and EMAIL are unique keys.
Inserted(accounts, a, failing) ==
  IF "exec" \in failing \/ HasUsername(accounts, a.user) \/ HasEmail(accounts, a.email)
  THEN accounts ELSE accounts \cup {a}

\* signupUser: a check that finds the database closed finds nothing.  (Variant: the address is not checked.)
SignupUserNameOnly(accounts, a, failing) ==
  IF "username" \notin failing /\ HasUsername(accounts, a.user)
  THEN [result |-> "BAD", accounts |-> accounts]
  ELSE [result |-> "SUCCESS", accounts |-> Inserted(accounts, a, failing)]
SignupUser(accounts, a, failing) ==
  IF \/ "username" \notin failing /\ HasUsername(accounts, a.user)
     \/ "email" \notin failing /\ HasEmail(accounts, a.email)
  THEN [result |-> "BAD", accounts |-> accounts]
  ELSE IF "open" \in failing
  THEN [result |-> "ERROR", accounts |-> accounts]
  ELSE [result |-> "SUCCESS", accounts |-> Inserted(accounts, a, failing)]

\* loginUser, with getUser: the user of the session is overwritten before the
\* password is looked at; of an unknown account it has empty fields.
LoginUser(accounts, current, u, password, failing) ==
  IF failing THEN [result |-> "ERROR", user |-> current]
  ELSE [result |-> IF \E a \in accounts : a.user = u /\ a.password = password
                   THEN "SUCCESS" ELSE "BAD",
        user |-> IF HasUsername(accounts, u) THEN u ELSE Nobody]
=============================================================================

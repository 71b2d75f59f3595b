----------------------------- MODULE UnitOfWork -----------------------------
(***************************************************************************)
(* What the services rely on of SQLAlchemy's session, configured with      *)
(* expire_on_commit=False: a row already in the session's identity map     *)
(* keeps the values it was first loaded with when a later query, a locking *)
(* one included, returns it again; and a flush writes only the columns     *)
(* whose value differs from the loaded one.                                *)
(***************************************************************************)

\* The row after a flush of `object', loaded as `loaded'.  The columns in
\* `stamped' got a value that no earlier one equals (an instant, a token).
Flush(row, loaded, object, stamped) ==
    [c \in DOMAIN row |->
        IF object[c] # loaded[c] \/ c \in stamped THEN object[c] ELSE row[c]]

=============================================================================

---------------------------- MODULE Publication ----------------------------
(***************************************************************************)
(* The lifecycle that every publishable entity shares: a status and the    *)
(* two columns that PublicationPolicy.apply derives from it.  They are     *)
(* kept apart because a flush may write one and leave the other.           *)
(***************************************************************************)

PublicationStatus == {"draft", "published", "hidden", "archived"}

\* `archived' tells whether archived_at is set.
Lifecycle == [status : PublicationStatus, visible : BOOLEAN, archived : BOOLEAN]

IsPublic(entity) == entity.status = "published" /\ entity.visible /\ ~entity.archived

\* PublicationPolicy.apply, on any record that has these columns.
Apply(entity, status) ==
    [entity EXCEPT !.status = status,
                   !.visible = status = "published",
                   !.archived = status = "archived"]

\* The columns to which apply assigns the time of the call.
Stamps(status) == IF status = "archived" THEN {"archived"} ELSE {}

=============================================================================

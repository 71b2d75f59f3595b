------------------------ MODULE MCNotificationOutbox ------------------------
(* Instances of NotificationOutbox for TLC.                                *)
EXTENDS NotificationOutbox, TLC

\* Tasks of a kind and submissions are interchangeable.
Interchangeable ==
    Permutations(Workers) \union Permutations(Handlers) \union Permutations(Submissions)

=============================================================================

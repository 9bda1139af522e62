--------------------------- MODULE MCNotification ---------------------------
(* The instance of Notification that TLC checks. *)
EXTENDS Notification

\* One topic of each kind: awaited with a push, awaited without an offset,
\* nobody waits, caught but not awaited with a push.
MCTopics == { "order-created", "register-user-otp", "forgot-password-otp", "payment_failed" }

MCFresh == { "register-user-otp" }

=============================================================================

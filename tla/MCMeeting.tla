----------------------------- MODULE MCMeeting -----------------------------
\* Identity A meets B, which has two devices and may go on certifying and
\* revoking; C is a third identity, whose bundle may be handed out instead.
EXTENDS MeetingDevices

MCDevice == {"a", "b", "b2"}
MCIdentityOf == [d \in MCDevice |-> IF d = "a" THEN "A" ELSE "B"]
MCContactOf == [d \in MCDevice |-> IF d = "a" THEN "B" ELSE "A"]
MCRoleOf == [d \in MCDevice |-> IF d = "a" THEN "A" ELSE "B"]
MCMaxDrawn == [d \in MCDevice |-> CASE d = "a" -> 2 [] d = "b" -> 1 [] d = "b2" -> 0]
=============================================================================

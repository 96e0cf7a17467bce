--------------------------- MODULE MCDeviceTrust ---------------------------
(* Instances of DeviceTrust for TLC.  A run gives every handler slot the    *)
(* operations it may serve; what is given to no slot does not happen.       *)
EXTENDS DeviceTrust, TLC

CONSTANTS ann, bob, h1, h2, h3, d0, d1, d2

NoHome    == [m \in {} |-> d0]
HomeOfAnn == [m \in {ann} |-> d0]
HomeOfBoth == [m \in {ann, bob} |-> IF m = ann THEN d0 ELSE d1]

FirstEnrolment == {"verify_otp", "begin_registration", "finish_registration"}
Bars           == {"suspend", "deactivate", "reactivate"}
Reviews        == {"approve", "reject"}
Logins         == {"begin_login", "finish_login"}

\* two clients enrol while an administrator suspends and reactivates
EnrolAndBar == [h \in Handlers |->
    CASE h = h1 -> FirstEnrolment [] h = h2 -> {"finish_registration"} [] OTHER -> Bars]

\* a lost device is replaced: two ways to ask, review, two registrations at once
ChangeDevice == [h \in Handlers |->
    CASE h = h1 -> FirstEnrolment [] h = h2 -> {"finish_registration", "request_device_change"}
      [] OTHER -> Reviews]

\* two members at the gate, one suspended meanwhile, one removing a device
AtTheGate == [h \in Handlers |->
    CASE h = h1 -> {"use_route", "remove_current_device"} [] h = h2 -> Logins \cup {"logout"}
      [] OTHER -> {"suspend"}]

\* an administrator bars a member who enrols or uses the directory
Suspension == [h \in Handlers |->
    IF h = h1 THEN FirstEnrolment \cup {"use_route", "request_device_change"} ELSE {"suspend"}]

SymEnrol == Permutations(Tickets) \cup Permutations({d0, d1})
SymChange == Permutations({d1, d2})
============================================================================

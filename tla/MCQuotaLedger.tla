--------------------------- MODULE MCQuotaLedger ---------------------------
(* Small instances of QuotaLedger for TLC. *)
EXTENDS QuotaLedger, TLC

CONSTANTS
    buy1, buyLarge, remove, quiet,         \* of a notification kind
    order1, order2, drop, renew1, renew2, renewNext, revive, keep1, keep2, keepOther, auto,
    small, large

AllOps == {buy1, buyLarge, remove, quiet, order1, order2, drop,
           renew1, renew2, renewNext, revive, keep1, keep2, keepOther, auto}

Operations == [o \in AllOps |->
    IF o \in {buy1, buyLarge} THEN "create"
    ELSE IF o = remove THEN "delete"
    ELSE IF o = quiet THEN "disable"
    ELSE IF o \in {order1, order2} THEN "createSynthetic"
    ELSE IF o = drop THEN "deleteSynthetic"
    ELSE IF o \in {renew1, renew2, renewNext} THEN "renew"
    ELSE IF o = revive THEN "recover"
    ELSE IF o = auto THEN "enable" ELSE "ensure"]

Packages == [o \in AllOps |-> IF o = buyLarge THEN large ELSE small]

\* Two renewals of the first term, one of the next; some calls name the first
\* quota, one a quota that is bought later.
Guards == [o \in AllOps |->
    IF o \in {renewNext, keepOther} THEN 1
    ELSE IF o \in {renew1, renew2, revive, drop, quiet} THEN 0 ELSE AnyQuota]

First(status, renews) == [id |-> 0, pkg |-> small, ends |-> 0, status |-> status, renews |-> renews]
Active == First("ACTIVE", FALSE)
Trashed == First("IN-TRASH", FALSE)
Renewing == First("ACTIVE", TRUE)

From(q, calls) == [calls |-> calls, quota |-> q]

AllScenes == {
    From(NoQuota, {buy1, buyLarge, remove}), From(Renewing, {remove, quiet}),
    From(Active, {renew1, renew2, renewNext}), From(Active, {renew1, keep1, drop}),
    From(NoQuota, {order1, order2}), From(NoQuota, {order1, keepOther}),
    From(Active, {order1, drop}), From(Active, {keep1, keep2}), From(Active, {keep1, auto}),
    From(Active, {auto, renew1}), From(Trashed, {revive, keep1}),
    From(Trashed, {revive, renewNext}), From(NoQuota, {buy1, quiet})}
=============================================================================

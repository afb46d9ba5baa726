----------------------------- MODULE MCDashboard -----------------------------
(* One node, which may be deleted, in two ranges; two browsers, one login link. *)
EXTENDS DashboardPage

CONSTANTS node, own, other, link
=============================================================================

-------------------------- MODULE MCTenantRequests --------------------------
(* Two tasks of one worker serve two tenants behind one address.            *)
EXTENDS TenantRequests
=============================================================================

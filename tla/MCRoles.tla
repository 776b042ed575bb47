------------------------------ MODULE MCRoles ------------------------------
(* Two radios; the constants' values are in the configurations. *)
EXTENDS Roles
=============================================================================

---------------------------- MODULE Credentials ----------------------------
(***************************************************************************)
(* The kinds of authentication an application server can ask for, as they  *)
(* are written into every cookie and request (src/src/pubcookie.h).        *)
(***************************************************************************)
EXTENDS Integers

PBC_CREDS_NONE       == 0
PBC_BASIC_CRED_ID    == 1
PBC_GETCRED_CRED_ID  == 2
PBC_UWSECURID_CRED_ID == 3
CredIds == PBC_BASIC_CRED_ID .. PBC_UWSECURID_CRED_ID

Time == Int
=============================================================================

------------------------------- MODULE MCRbac -------------------------------
EXTENDS Rbac

\* The seeded role is granted every permission of the instance.
MCSeedPermissions == Permissions
=============================================================================

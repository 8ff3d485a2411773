------------------------------- MODULE MCSite -------------------------------
EXTENDS Site

CONSTANTS alice, devfreeguy

MCTags == {alice, devfreeguy}
MCBadTags == {"ab"}
MCGroups == {"Protocol", "Community"}
=============================================================================

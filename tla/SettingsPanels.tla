--------------------------- MODULE SettingsPanels ---------------------------
(***************************************************************************)
(* The panels of the settings window.  SettingsPanel gives its content a   *)
(* key made of the server and the tab, so a change of either remounts it.  *)
(***************************************************************************)
EXTENDS PanelView

SettingsPanel == "remount"

\* components/settings/ServerSettingsModal.tsx

\* The form starts from the server store, which is always there.
GeneralTab ==
  Shows(SettingsPanel, "no", FALSE,
    {Op(ServerSettingsApi.updateServerSettings, "nothing", "call"),
     Op(ServerSettingsApi.updateChannelCreationSetting, "optimistic", "call"),
     Op(ServerSettingsApi.uploadServerIcon, "nothing", "call"),
     Op(ServerSettingsApi.deleteServerIcon, "nothing", "call"),
     Op(ServerEditApi.deleteServer, "nothing", "call")})
MembersTab ==
  Shows(SettingsPanel, "answered", FALSE,
    {Op(MembersApi.updateMemberRole, "local", "none"), Op(MembersApi.kickMember, "local", "none")})
BansTab ==
  Shows(SettingsPanel, "answered", FALSE,
    {EarlyOp(BansApi.banUser, "reload", "none"), Op(BansApi.unbanUser, "local", "none")})
WhitelistTab ==
  Shows(SettingsPanel, "answered", FALSE,
    {EarlyOp(WhitelistApi.addToWhitelist, "reload", "none"),
     Op(WhitelistApi.removeFromWhitelist, "local", "none")})
WebhooksTab ==
  Shows(SettingsPanel, "answered", FALSE,
    {EarlyOp(WebhooksApi.createWebhook, "reload", "none"), Op(WebhooksApi.deleteWebhook, "local", "none"),
     Op(WebhooksApi.toggleWebhook, "local", "none")})
ModerationTab ==
  Shows(SettingsPanel, "answered", FALSE,
    {Op(ModerationApi.updateBanSettings, "echo", "call"),
     Op(ModerationApi.updateMemberPermissions, "local", "none")})
\* The subject is the query; the timer is cleared, the request under way is not.
InviteUserTab ==
  Shows("none", "no", FALSE, {Op(DirectInvitesApi.sendDirectInvite, "nothing", "slot")})
InviteLinkSection ==
  Shows(SettingsPanel, "no", FALSE,
    {Op(InvitesApi.createInvite, "local", "call"), Op(InvitesApi.updateInvite, "local", "slot"),
     Op(InvitesApi.revokeInvite, "local", "none")})
InviteAuthCode == Shows("flag", "no", TRUE, {})

\* components/settings/AdminTab.tsx

OverviewSection == Shows(SettingsPanel, "value", FALSE, {})
ServersSection == Shows(SettingsPanel, "value", FALSE, {})
UsersSection == Shows(SettingsPanel, "value", FALSE, {})
InstanceSection ==
  Shows(SettingsPanel, "no", FALSE,
    {Op(InstanceApi.updateInstanceSettings, "local", "none")})
InstanceBrandingSubsection ==
  Shows("flag", "no", FALSE, {Op(InstanceApi.setInstanceBranding, "nothing", "panel")})
InvitesSection ==
  Shows(SettingsPanel, "no", FALSE,
    {Op(AdminInvitesApi.adminCreateInvite, "reload", "call"),
     Op(AdminInvitesApi.adminRevokeInvite, "reload", "none")})
\* The whole allowlist is sent, made from the one on screen.  Its buttons wait for
\* the restart, the restart does not wait for them.
FederationSection ==
  Shows(SettingsPanel, "value", FALSE,
    {Op(FederationApi.updateFederationAllowlist, "echo", "panel"),
     Op(FederationApi.applyFederationChanges, "reload", "call")})
ReportsSection ==
  Shows(SettingsPanel, "value", FALSE, {Op(AdminApi.updateAdminReport, "local", "none")})
ServiceNodeSection ==
  Shows(SettingsPanel, "value", FALSE, {Op(ServiceNodeApi.updateServiceNodeConfig, "echo", "panel")})
BansSection ==
  Shows(SettingsPanel, "no", TRUE,
    {Op(AdminBansApi.adminBanUser, "reload", "call"), Op(AdminBansApi.adminUnbanUser, "local", "slot")})

\* The other tabs.

UsersTab ==
  Shows(SettingsPanel, "answered", FALSE,
    {Op(ProfileApi.userProfileCreate, "reload", "none"),
     Op(ProfileApi.userProfileRename, "reload", "none"),
     Op(ProfileApi.userProfileSetPrimary, "reload", "none"),
     Op(ProfileApi.userProfileDelete, "reload", "none")})
ProfileTab ==
  Shows(SettingsPanel, "no", FALSE, {Op(Replace, "nothing", "call"), Op(Patch, "nothing", "call")})
PasswordChangeSection == Shows(SettingsPanel, "no", FALSE, {Op(AccountApi.changePassword, "nothing", "panel")})
TOTPSection ==
  Shows(SettingsPanel, "value", FALSE,
    {Op(TOTPApi.setupTOTP, "nothing", "panel"), Op(TOTPApi.verifyTOTP, "local", "panel"),
     Op(TOTPApi.disableTOTP, "local", "panel")})
\* A null address removes it.
RecoveryEmailSection ==
  Shows(SettingsPanel, "answered", FALSE,
    {Op(AccountApi.setRecoveryEmail, "local", "panel"), Op(Remove, "local", "panel")})
VisibilityRowSlider ==
  Shows("flag", "value", FALSE, {Op(VisibilityApi.setVisibility, "echo", "panel")})
\* The form of the name store, which loads once when the app starts: a mount is an
\* app start.  The form is off while the store loads or saves.
useInstanceNameStore ==
  Shows("remount", "answered", FALSE, {Op(InstanceNameApi.setInstanceName, "local", "panel")})
\* Adding runs in a form of its own with a flag of its own.
IdentityTrustNative ==
  Shows(SettingsPanel, "no", FALSE, 
    {Op(TrustApi.revokeTrustEdge, "reload", "call"), Op(TrustApi.addTrustEdge, "reload", "call")})
DeploymentProfileSection ==
  Shows(SettingsPanel, "no", FALSE,
    {Op(HostingApi.setHostingProfile, "reload", "none"), Op(HostingApi.enableWebStack, "reload", "none")})
NodeHostingTab ==
  Shows(SettingsPanel, "value", TRUE, {Op(HostingApi.startHostingServitude, "reload", "panel")})
useHostingStatus == Shows("flag", "no", TRUE, {})
ExportModal ==
  Shows("flag", "no", FALSE,
    {Op(ExportApi.homeExportPackage, "nothing", "panel"),
     Op(ExportApi.homeExportCopyTo, "nothing", "panel")})
TunnelHardeningSection ==
  Shows("flag", "value", FALSE, {Op(TunnelApi.setTunnelConfig, "echo", "panel")})
AboutTab == Shows("flag", "no", TRUE, {})
SwarmStatusSection == Shows(SettingsPanel, "no", TRUE, {})
BrowserSwarmStatusBlock == Shows("flag", "no", TRUE, {})
BrowserSessionIdentityRow == Shows("flag", "no", FALSE, {})

SettingsPanelSet ==
  {GeneralTab, MembersTab, BansTab, WhitelistTab, WebhooksTab, ModerationTab, InviteUserTab,
   InviteLinkSection, InviteAuthCode, OverviewSection, ServersSection, UsersSection,
   InstanceSection, InstanceBrandingSubsection, InvitesSection, FederationSection,
   ReportsSection, ServiceNodeSection, BansSection, UsersTab, ProfileTab,
   PasswordChangeSection, TOTPSection, RecoveryEmailSection, VisibilityRowSlider,
   useInstanceNameStore, IdentityTrustNative, DeploymentProfileSection, NodeHostingTab,
   useHostingStatus, ExportModal, TunnelHardeningSection, AboutTab, SwarmStatusSection,
   BrowserSwarmStatusBlock, BrowserSessionIdentityRow}
=============================================================================

--------------------------- MODULE SystemSections ---------------------------
(***************************************************************************)
(* The sections of the admin system page, each as the fields its code      *)
(* names: the row type, the columns shown, the editor's form, the payload  *)
(* sent (adminSystem.ts), the answer read back (map...Dto) and the row the *)
(* local draft keeps (draft.ts).  The six lists of a section are written   *)
(* apart in the source, and a field one of them forgets is lost on its way *)
(* without an error: ConfigConsole carries rows along these lists.         *)
(*                                                                         *)
(* Left out: labels, widths, renderers, select options, and the coercion   *)
(* of a value to its type.                                                 *)
(***************************************************************************)

PaymentChannelRow == {"key", "channelKey", "channelName", "displayNameZh", "displayNameEn",
                      "modeLabelZh", "modeLabelEn", "channelType", "providerName",
                      "currency", "settlementMode", "enabled", "qrValue", "reference",
                      "autoFulfill", "autoDeliver", "callbackAuthType", "callbackSecret",
                      "callbackSecretMasked", "callbackKey", "callbackHeaderName",
                      "callbackSignHeader", "callbackTimestampHeader",
                      "callbackNonceHeader", "callbackSignatureParam",
                      "callbackTimestampParam", "callbackNonceParam", "callbackTTLSeconds",
                      "callbackSignSource", "refundProviderKey", "refundActionKey",
                      "refundStatusPath", "refundReceiptPath"}
PaymentChannelShown == {"channelName", "channelKey", "channelType", "providerName", "currency",
                        "settlementMode", "callbackAuthType", "reference", "enabled"}
PaymentChannelBasics == {"channelKey", "channelName", "displayNameZh", "displayNameEn",
                         "modeLabelZh", "modeLabelEn", "channelType", "providerName",
                         "currency", "settlementMode", "qrValue", "reference",
                         "autoFulfill", "autoDeliver", "enabled"}
CallbackFields == {"callbackAuthType", "callbackSecret", "callbackKey", "callbackHeaderName",
                   "callbackSignHeader", "callbackTimestampHeader", "callbackNonceHeader",
                   "callbackSignatureParam", "callbackTimestampParam", "callbackNonceParam",
                   "callbackTTLSeconds", "callbackSignSource"}
RefundFields == {"refundProviderKey", "refundActionKey", "refundStatusPath", "refundReceiptPath"}
PaymentChannelForm == PaymentChannelBasics \cup CallbackFields \cup RefundFields
\* Mutant of PaymentChannelSent: the refund settings are forgotten.
PaymentChannelSentShort == PaymentChannelRow \ ({"key", "callbackSecretMasked"} \cup RefundFields)
PaymentChannelSent == PaymentChannelRow \ {"key", "callbackSecretMasked"}
PaymentChannelRead == PaymentChannelRow
PaymentChannelKept == PaymentChannelRow

\* What choosing a channel type writes over: the fields of paymentChannelPresets.
PresetFields == {"channelKey", "channelName", "displayNameZh", "displayNameEn", "modeLabelZh",
                 "modeLabelEn", "channelType", "providerName", "currency", "settlementMode",
                 "reference"}

ProviderRow == {"key", "providerKey", "providerName", "baseUrl", "authType", "authConfig",
                "retryTimes", "timeoutMs", "health", "enabled", "lastCheckedAt"}
ProviderShown == ProviderRow \ {"key", "authConfig", "lastCheckedAt"}
ProviderForm == ProviderRow \ {"key", "lastCheckedAt"}
ProviderSent == {"providerKey", "providerName", "baseUrl", "authType", "authConfig",
                 "retryTimes", "timeoutMs", "health", "enabled"}
ProviderRead == ProviderRow
ProviderKept == ProviderRow

ActionRow == {"key", "providerKey", "actionKey", "method", "pathTemplate", "successPath",
              "messagePath", "codeListPath", "headerTemplate", "queryTemplate",
              "bodyTemplate", "enabled"}
ActionShown == ActionRow \ {"key"}
ActionForm == ActionRow \ {"key"}
ActionSent == {"providerKey", "actionKey", "method", "pathTemplate", "successPath",
               "messagePath", "codeListPath", "headerTemplate", "queryTemplate",
               "bodyTemplate", "enabled"}
ActionRead == ActionRow
ActionKept == ActionRow

FulfillmentRow == {"key", "strategyKey", "strategyName", "fulfillmentType", "providerKey",
                   "actionKey", "requestTemplate", "resultSchema", "deliveryTemplate",
                   "retryPolicy", "enabled"}
FulfillmentShown == FulfillmentRow \ {"key"}
FulfillmentForm == FulfillmentRow \ {"key"}
FulfillmentSent == {"strategyKey", "strategyName", "fulfillmentType", "providerKey",
                    "actionKey", "requestTemplate", "resultSchema", "deliveryTemplate",
                    "retryPolicy", "enabled"}
FulfillmentRead == FulfillmentRow
FulfillmentKept == FulfillmentRow

DeliveryRow == {"key", "strategyKey", "strategyName", "channelType", "maskPolicy",
                "resendAllowed", "messageTemplate", "enabled"}
DeliveryShown == DeliveryRow \ {"key"}
DeliveryForm == DeliveryRow \ {"key"}
DeliverySent == {"strategyKey", "strategyName", "channelType", "maskPolicy",
                 "resendAllowed", "messageTemplate", "enabled"}
DeliveryRead == DeliveryRow
DeliveryKept == DeliveryRow

TelegramRow == {"key", "botKey", "botUsername", "botToken", "botTokenMasked",
                "webhookSecret", "webhookMasked", "webhookUrl", "webhookUrlResolved",
                "webhookIP", "allowedUpdates", "maxConnections", "dropPendingUpdates",
                "enabled", "source"}
TelegramShown == TelegramRow \ {"key", "webhookIP", "allowedUpdates", "maxConnections",
                                "dropPendingUpdates"}
TelegramForm == TelegramRow \ {"key", "botTokenMasked", "webhookMasked",
                               "webhookUrlResolved", "source"}
TelegramSent == {"botKey", "botUsername", "botToken", "webhookSecret", "webhookUrl",
                 "webhookIP", "allowedUpdates", "maxConnections", "dropPendingUpdates",
                 "enabled"}
TelegramRead == TelegramRow
TelegramKept == TelegramRow

ClientKeyRow == {"key", "clientKey", "clientName", "clientSecret", "clientSecretMasked",
                 "scopes", "allowedIPs", "status", "enabled"}
ClientKeyShown == {"clientKey", "clientName", "clientSecretMasked", "scopes", "allowedIPs",
                   "status"}
ClientKeyForm == {"clientKey", "clientName", "clientSecret", "scopes", "allowedIPs", "status"}
\* The status sent, and the one the draft keeps, is computed from "enabled", which every
\* row and every new record carries: the status chosen in the form is not looked at.
ClientKeySent == {"clientKey", "clientName", "clientSecret", "scopes", "allowedIPs", "enabled"}
ClientKeyRead == ClientKeyRow
ClientKeyKept == ClientKeyRow \ {"status"}

RuntimeRow == {"key", "module", "name", "value", "scope", "effectiveValue", "valueSource",
               "appliesLive", "description", "envKey"}
RuntimeShown == RuntimeRow \ {"key", "description", "envKey"}
RuntimeForm == {"module", "name", "value", "scope"}
RuntimeSent == {"module", "name", "value", "scope"}
RuntimeRead == RuntimeRow
RuntimeKept == RuntimeRow

AuditLogRow == {"key", "operator", "module", "action", "targetId", "createdAt", "targetType",
                "requestIp", "requestPayload"}
AuditLogShown == {"operator", "module", "action", "targetId", "createdAt"}
AuditLogRead == AuditLogRow

---------------------------------------------------------------------------
(* What getSystemSectionConfig gives each section: the field that names a  *)
(* record in routes, the form's first values, and the buttons of a row.    *)

PaymentChannels ==
    [ident |-> "channelKey", row |-> PaymentChannelRow, shown |-> PaymentChannelShown,
     form |-> PaymentChannelForm, sent |-> PaymentChannelSent, read |-> PaymentChannelRead,
     kept |-> PaymentChannelKept, can |-> {"create", "edit", "toggle", "delete"}]
Providers ==
    [ident |-> "providerKey", row |-> ProviderRow, shown |-> ProviderShown,
     form |-> ProviderForm, sent |-> ProviderSent, read |-> ProviderRead,
     kept |-> ProviderKept, can |-> {"create", "edit", "toggle", "test", "delete"}]
Actions ==
    [ident |-> "actionKey", row |-> ActionRow, shown |-> ActionShown,
     form |-> ActionForm, sent |-> ActionSent, read |-> ActionRead,
     kept |-> ActionKept, can |-> {"create", "edit", "toggle", "test", "delete"}]
FulfillmentStrategies ==
    [ident |-> "strategyKey", row |-> FulfillmentRow, shown |-> FulfillmentShown,
     form |-> FulfillmentForm, sent |-> FulfillmentSent, read |-> FulfillmentRead,
     kept |-> FulfillmentKept, can |-> {"create", "edit", "toggle", "test", "delete"}]
DeliveryStrategies ==
    [ident |-> "strategyKey", row |-> DeliveryRow, shown |-> DeliveryShown,
     form |-> DeliveryForm, sent |-> DeliverySent, read |-> DeliveryRead,
     kept |-> DeliveryKept, can |-> {"create", "edit", "toggle", "test", "delete"}]
TelegramConfigs ==
    [ident |-> "botKey", row |-> TelegramRow, shown |-> TelegramShown,
     form |-> TelegramForm, sent |-> TelegramSent, read |-> TelegramRead,
     kept |-> TelegramKept, can |-> {"create", "edit", "webhook", "delete"}]
InternalClientKeys ==
    [ident |-> "clientKey", row |-> ClientKeyRow, shown |-> ClientKeyShown,
     form |-> ClientKeyForm, sent |-> ClientKeySent, read |-> ClientKeyRead,
     kept |-> ClientKeyKept, can |-> {"create", "edit", "toggle", "delete"}]
RuntimeSettings ==
    [ident |-> "name", row |-> RuntimeRow, shown |-> RuntimeShown,
     form |-> RuntimeForm, sent |-> RuntimeSent, read |-> RuntimeRead,
     kept |-> RuntimeKept, can |-> {"create", "edit", "delete"}]
AuditLogs ==
    [ident |-> "key", row |-> AuditLogRow, shown |-> AuditLogShown,
     form |-> {}, sent |-> {}, read |-> AuditLogRead,
     kept |-> AuditLogRow, can |-> {"view"}]
=============================================================================
